---- MODULE Spec2Model ----
(***************************************************************************)
(* Signal & Decision Engine of talasea-watcher (src/src/web-server.ts,     *)
(* class Engine), as a state machine.                                      *)
(*                                                                         *)
(* Units.  Time is counted in whole minutes (Date.now() / 60000).          *)
(* Probabilities, confidences and thresholds are in percent (0.6 -> 60).   *)
(* Fees are in thousandths (0.003 -> 3).  rangePct is in thousandths,      *)
(* driftPct and the expected-stop factor in millionths.  Prices are the    *)
(* integers the price feed sends, scaled to toman as the code scales them. *)
(* A nullable number is a tuple: <<>> is null, <<v>> is the number v.      *)
(*                                                                         *)
(* The scorer (tanh / sigmoid over float momenta) is not computable in     *)
(* integers: buildSignal draws pUp and confidence from finite sets, under  *)
(* the relations the code guarantees (a neutral signal from one snapshot,  *)
(* pUp inside (0.33, 0.57) while no snapshot is a momentum lookback old,   *)
(* confidence <= 2|pUp - 0.5|).  The volatility that feeds rangePct is     *)
(* drawn the same way and clamped to [0.001, 0.05] as the code clamps it.  *)
(***************************************************************************)
EXTENDS Integers, Sequences, FiniteSets, TLC

VARIABLES
    now,                \* Date.now(), in minutes
    settings,           \* Engine.settings
    profile,            \* Engine.profile
    history,            \* Engine.history
    pendingPredictions, \* Engine.pendingPredictions
    metrics,            \* Engine.metrics
    timer,              \* Engine.timer: <<>> or <<interval>>
    running,            \* Engine.running
    initialized,        \* Engine.initialized
    lastRetentionSweepAt, \* Engine.lastRetentionSweepAt
    eventSeq,           \* Engine.eventSeq
    state,              \* Engine.state (the published state)
    db,                 \* the rows behind the prisma client
    ticks,              \* tick() invocations suspended at an await
    calls,              \* updateProfile/updateSettings invocations suspended at their upsert
    startPc,            \* position of engine.start()
    lastEmitted,        \* history variable: the last emitted non-HOLD action and its time
    updatesIssued,      \* history variable: the number of update calls made so far
    event,              \* the last handler step taken, what it returned or threw, and
                        \* whether it called publish()
    observers,          \* Engine.listeners and the callers of the getters: who is
                        \* subscribed, how often each was handed a state, and the
                        \* object each one holds
    cli,                \* price.js, the console advisor: its state object and its
                        \* running flag
    watcher             \* index.js, the price-target watcher: its state object, the
                        \* fetches in flight and the notifications sent

vars == <<now, settings, profile, history, pendingPredictions, metrics, timer,
          running, initialized, lastRetentionSweepAt, eventSeq, state, db,
          ticks, calls, startPc, lastEmitted, updatesIssued, event, observers,
          cli, watcher>>

-----------------------------------------------------------------------------
(* Bounds of the model *)

\* the clock stops here
MaxTime == 17
\* ticks started, update calls made and event lines written, after which the
\* environment starts no further tick and makes no further update call
MaxEvents == 3
\* the same budget for the runs that explore the decision policy
MaxPolicyEvents == 5
MaxDecisionEvents == 4
MaxConfigEvents == 5
MaxHistoryEvents == 4
MaxMetricsEvents == 4
MaxStartupEvents == 3
MaxListenerEvents == 3
MaxGetterEvents == 2
\* states handed to one listener, after which the listener is not subscribed again and
\* the engine is not stopped again
MaxDeliveries == 2
\* snapshot rows in the database, after which no further tick is started
MaxFieldRows == 4
MaxParseEvents == 3
\* the snapshots an earlier run left in the database, one a minute, and the minutes
\* between the last of them and this start
StoredPoints == 1001
DownMinutes == 435

(* Program constants *)

TALASEA_TO_TOMAN_MULTIPLIER == 1000
RETENTION_SWEEP_INTERVAL_MIN == 15
MAX_LOG_LINES == 40
CHART_POINTS == 300
MinPollIntervalMs == 10000
MaxPollIntervalMs == 3600000
MinPredictionHorizonMin == 5
MaxPredictionHorizonMin == 1440
MinThreshold == 1
MaxThreshold == 99
MaxConfidencePct == 100
MaxActionCooldownMin == 360
MinHistoryRetentionHours == 24
MaxHistoryRetentionHours == 8760
MinInMemoryPoints == 1000
MaxInMemoryPoints == 1000000
MinFreshnessMaxMin == 15
MaxFreshnessMaxMin == 1440
RIAL_TO_TOMAN_DIVISOR == 10
MaxFeePerMille == 200
MinRangePerMille == 1
MaxRangePerMille == 50
MsPerMinute == 60000
MOMENTUM_LOOKBACK_MIN == 5
MinPUpWithoutMomentum == 33
MaxPUpWithoutMomentum == 56
MinutesPerHour == 60

-----------------------------------------------------------------------------
(* Small helpers *)

Null == <<>>
Some(v) == <<v>>
IsFinite(x) == x # <<>>
Val(x) == x[1]

Max(a, b) == IF a >= b THEN a ELSE b
Min(a, b) == IF a <= b THEN a ELSE b
Abs(a) == IF a >= 0 THEN a ELSE 0 - a

\* what a patch field that is not a number becomes in arithmetic, Number("abc"): it
\* is outside every range, Math.max and Math.min hand it on, and every comparison
\* with it is false
NaN == -2147483647

Lt(a, b) == a # NaN /\ b # NaN /\ a < b
Le(a, b) == a # NaN /\ b # NaN /\ a <= b
Ge(a, b) == a # NaN /\ b # NaN /\ a >= b
Gt(a, b) == a # NaN /\ b # NaN /\ a > b

clamp(v, lo, hi) == IF v = NaN THEN NaN ELSE Min(hi, Max(lo, v))

RemoveAt(s, i) == [j \in 1..(Len(s) - 1) |-> IF j < i THEN s[j] ELSE s[j + 1]]

Merge(base, patch) ==
    [k \in DOMAIN base |-> IF k \in DOMAIN patch THEN patch[k] ELSE base[k]]

-----------------------------------------------------------------------------
(* Values the environment can supply *)

\* what the price field of the Talasea answer parses to; <<>> when it does not parse
RawPrices == {Null, Some(0), Some(1)}

\* outcomes of the scorer, in percent
PUpValues == {30, 50, 70}
ConfidenceValues == {0, 30}

\* vol * sqrt(steps) * 1.2, in thousandths
RangeValues == {1, 20}

\* how far the clock moves between two handler steps, in minutes
Durations == {8}
PolicyDurations == {5}

ProfilePatches == { [cashIrr |-> 5000] }

SettingsPatches ==
    { [pollIntervalMs |-> 120000], [buyThreshold |-> 40, sellThreshold |-> 40] }

\* bodies of PUT /api/profile and PUT /api/settings with fields outside their ranges:
\* a fee of 0.25, a negative cash amount; a poll interval of 5 s, a buyThreshold that
\* is not a number, thresholds that meet, and a horizon at its minimum
ConfigProfilePatches == { [buyFeePct |-> 250], [cashIrr |-> 0 - 5] }

ConfigSettingsPatches ==
    { [pollIntervalMs |-> 5000],
      [buyThreshold |-> NaN],
      [buyThreshold |-> 40, sellThreshold |-> 40],
      [predictionHorizonMin |-> 5] }

-----------------------------------------------------------------------------
(* Defaults of the constructor *)

DefaultSettings ==
    [ pollIntervalMs |-> 60000,
      predictionHorizonMin |-> 30,
      buyThreshold |-> 60,
      sellThreshold |-> 40,
      minConfidence |-> 20,
      actionCooldownMin |-> 8,
      historyRetentionHours |-> 720,
      maxInMemoryPoints |-> 50000,
      freshnessMaxMin |-> 180 ]

DefaultProfile ==
    [ cashIrr |-> 0, goldGrams |-> 0, avgBuyPrice |-> 0, buyFeePct |-> 3, sellFeePct |-> 3 ]

WaitingDecision ==
    [ action |-> "HOLD", reason |-> "waiting for first fetch", cooldownLeft |-> 0,
      expectedPrice |-> 0, buyEdgePct |-> Null, sellEdgePct |-> Null ]

InitialState ==
    [ status |-> "idle",
      lastFetchAt |-> 0,
      nextFetchAt |-> 0,
      lastError |-> Null,
      settings |-> DefaultSettings,
      profile |-> DefaultProfile,
      signal |-> Null,
      decision |-> WaitingDecision,
      zones |-> Null,
      metrics |-> [total |-> 0, correct |-> 0, brierSum |-> 0],
      historyPoints |-> 0,
      priceHistory |-> <<>>,
      logs |-> <<>>,
      errors |-> <<>> ]

-----------------------------------------------------------------------------
(* Pure functions of the engine *)

\* A value of a JSON answer is absent (Null), a string or a number; text is its
\* characters, for a number those of String(n).
Str(text) == [type |-> "string", text |-> text]
Num(text) == [type |-> "number", text |-> text]

DigitChars == {"0", "1", "2", "3", "4", "5", "6", "7", "8", "9"}

DigitValue(c) ==
    CASE c = "0" -> 0 [] c = "1" -> 1 [] c = "2" -> 2 [] c = "3" -> 3 [] c = "4" -> 4
      [] c = "5" -> 5 [] c = "6" -> 6 [] c = "7" -> 7 [] c = "8" -> 8 [] c = "9" -> 9

RECURSIVE DigitsValue(_)
DigitsValue(text) ==
    IF Len(text) = 0 THEN 0
    ELSE 10 * DigitsValue(SubSeq(text, 1, Len(text) - 1)) + DigitValue(text[Len(text)])

\* the characters of text that are in keep
Only(text, keep) == LET Kept(c) == c \in keep IN SelectSeq(text, Kept)

\* Number(text) for a text of digits, "." and "-": NaN unless text is an optional "-",
\* digits with at most one "." among them, and at least one digit.  The texts of the
\* model have no digit other than 0 behind the ".", so the number is a whole number.
ToNumber(text) ==
    LET negative == Len(text) > 0 /\ text[1] = "-"
        body == IF negative THEN SubSeq(text, 2, Len(text)) ELSE text
        dots == Only(body, {"."})
        int == IF Len(dots) = 0 THEN body
               ELSE SubSeq(body, 1, (CHOOSE k \in 1..Len(body) :
                                        body[k] = "." /\ \A j \in 1..(k - 1) : body[j] # ".") - 1)
    IN  IF \/ Len(Only(body, {"-"})) > 0
           \/ Len(dots) > 1
           \/ Len(Only(body, DigitChars)) = 0
        THEN NaN
        ELSE IF negative THEN 0 - DigitsValue(int) ELSE DigitsValue(int)

\* parseNumber(input): null for an absent input; a number as it is; of a string the
\* digits, "." and "-" are kept and read as a number, null when they are no number
parseNumber(input) ==
    IF input = Null THEN Null
    ELSE LET cleaned == Only(input.text, DigitChars \cup {".", "-"})
         IN  IF cleaned \in {<<>>, <<"-">>, <<".">>} THEN Null
             ELSE IF ToNumber(cleaned) = NaN THEN Null
             ELSE Some(ToNumber(cleaned))

normalizeTalaseaPriceToToman(price) ==
    IF IsFinite(price) THEN Some(Val(price) * TALASEA_TO_TOMAN_MULTIPLIER) ELSE Null

\* the feature keys the model follows: two that tgju quotes in rial, of which one is
\* the gold quote the divergence reads, and one that is not in rial
FEATURE_KEYS == {"price_dollar_rl", "ons", "tgju_gold_irg18"}
TGJU_RIAL_TO_TOMAN_KEYS == {"price_dollar_rl", "tgju_gold_irg18"}

\* Mutation of normalizeTgjuFieldValueToToman: the already-adjusted flag is ignored
normalizeTgjuFieldValueAgain(key, value, alreadyAdjusted) ==
    IF ~IsFinite(value) THEN Null
    ELSE IF key \notin TGJU_RIAL_TO_TOMAN_KEYS THEN value
    ELSE Some(Val(value) \div RIAL_TO_TOMAN_DIVISOR)

\* values are whole numbers; the rial quotes the model draws are multiples of the divisor
normalizeTgjuFieldValueToToman(key, value, alreadyAdjusted) ==
    IF ~IsFinite(value) THEN Null
    ELSE IF key \notin TGJU_RIAL_TO_TOMAN_KEYS THEN value
    ELSE IF alreadyAdjusted THEN value
    ELSE Some(Val(value) \div RIAL_TO_TOMAN_DIVISOR)

\* Mutation of fetchField: a field dated after the snapshot counts as fresh
fetchFieldNoLowerBound(key, entry, t, s) ==
    LET value == normalizeTgjuFieldValueToToman(key, parseNumber(entry.p), FALSE)
        ageMin == IF IsFinite(entry.ts) THEN Some(t - Val(entry.ts)) ELSE Null
    IN  [ value |-> value, ts |-> entry.ts, ageMin |-> ageMin,
          fresh |-> /\ IsFinite(value)
                    /\ IsFinite(ageMin)
                    /\ Le(Val(ageMin), s.freshnessMaxMin),
          unitAdjusted |-> TRUE ]

\* the field fetchSnapshot builds at time t from the entry tgju answered for key:
\* entry.p is the quote as answered, entry.ts what parseTimestampMs returns
fetchField(key, entry, t, s) ==
    LET value == normalizeTgjuFieldValueToToman(key, parseNumber(entry.p), FALSE)
        ageMin == IF IsFinite(entry.ts) THEN Some(t - Val(entry.ts)) ELSE Null
    IN  [ value |-> value, ts |-> entry.ts, ageMin |-> ageMin,
          fresh |-> /\ IsFinite(value)
                    /\ IsFinite(ageMin)
                    /\ Val(ageMin) >= 0
                    /\ Le(Val(ageMin), s.freshnessMaxMin),
          unitAdjusted |-> TRUE ]

\* the field normalizeSnapshot builds from the stored field v of a row of time t
normalizeField(key, v, t, s) ==
    LET value == normalizeTgjuFieldValueToToman(key, v.value, v.unitAdjusted)
        ageMin == IF IsFinite(v.ts) THEN Some(t - Val(v.ts)) ELSE Null
    IN  [ value |-> value, ts |-> v.ts, ageMin |-> ageMin,
          fresh |-> /\ IsFinite(value)
                    /\ IsFinite(ageMin)
                    /\ Val(ageMin) >= 0
                    /\ Le(Val(ageMin), s.freshnessMaxMin),
          unitAdjusted |-> TRUE ]

\* getFieldValue(snapshot, key)
getFieldValue(snapshot, key) ==
    IF snapshot.fields[key].fresh THEN snapshot.fields[key].value ELSE Null

\* the count buildSignal takes of the fresh fields of the latest snapshot
freshFields(snapshot) == Cardinality({key \in FEATURE_KEYS : snapshot.fields[key].fresh})

sanitizeProfile(p) ==
    [ cashIrr |-> Max(0, p.cashIrr),
      goldGrams |-> Max(0, p.goldGrams),
      avgBuyPrice |-> Max(0, p.avgBuyPrice),
      buyFeePct |-> clamp(Max(0, p.buyFeePct), 0, MaxFeePerMille),
      sellFeePct |-> clamp(Max(0, p.sellFeePct), 0, MaxFeePerMille) ]

\* the clamping part of sanitizeSettings
ClampedSettings(s) ==
    [ pollIntervalMs |-> clamp(s.pollIntervalMs, MinPollIntervalMs, MaxPollIntervalMs),
      predictionHorizonMin |->
          clamp(s.predictionHorizonMin, MinPredictionHorizonMin, MaxPredictionHorizonMin),
      buyThreshold |-> clamp(s.buyThreshold, MinThreshold, MaxThreshold),
      sellThreshold |-> clamp(s.sellThreshold, MinThreshold, MaxThreshold),
      minConfidence |-> clamp(s.minConfidence, 0, MaxConfidencePct),
      actionCooldownMin |-> clamp(s.actionCooldownMin, 0, MaxActionCooldownMin),
      historyRetentionHours |->
          clamp(s.historyRetentionHours, MinHistoryRetentionHours, MaxHistoryRetentionHours),
      maxInMemoryPoints |-> clamp(s.maxInMemoryPoints, MinInMemoryPoints, MaxInMemoryPoints),
      freshnessMaxMin |-> clamp(s.freshnessMaxMin, MinFreshnessMaxMin, MaxFreshnessMaxMin) ]

\* Mutation of SettingsAccepted: equal thresholds pass
SettingsAcceptedWhenEqual(s) ==
    ~Lt(ClampedSettings(s).buyThreshold, ClampedSettings(s).sellThreshold)

\* sanitizeSettings throws exactly when this is FALSE
SettingsAccepted(s) ==
    ~Le(ClampedSettings(s).buyThreshold, ClampedSettings(s).sellThreshold)

sanitizeSettings(s) == ClampedSettings(s)

\* the index of the first snapshot of h that is not older than ts, Len(h) + 1 when
\* there is none: where both scans from the oldest snapshot on stop
FirstAtOrAfter(h, ts) ==
    CHOOSE i \in 1..(Len(h) + 1) :
        /\ i = Len(h) + 1 \/ ~Lt(h[i].t, ts)
        /\ \A j \in 1..(i - 1) : Lt(h[j].t, ts)

\* history.shift() while the oldest is older than the retention, then splice to maxPoints
DropOld(h, minTs) == SubSeq(h, FirstAtOrAfter(h, minTs), Len(h))

\* Mutation of trimHistory: the retention only, without the splice to maxInMemoryPoints
trimHistoryRetentionOnly(h, nowMs, s) ==
    DropOld(h, nowMs - s.historyRetentionHours * MinutesPerHour)

trimHistory(h, nowMs, s) ==
    LET minTs == nowMs - s.historyRetentionHours * MinutesPerHour
        kept == DropOld(h, minTs)
    IN  IF Gt(Len(kept), s.maxInMemoryPoints)
        THEN SubSeq(kept, Len(kept) - s.maxInMemoryPoints + 1, Len(kept))
        ELSE kept

\* Mutation of valueAtOrAfter: the first gold price strictly after targetTs
valueAfter(h, targetTs) ==
    LET i == FirstAtOrAfter(h, targetTs + 1)
    IN  IF i > Len(h) THEN Null ELSE Some(h[i].goldPrice)

\* first gold price at or after targetTs, scanning oldest to newest
valueAtOrAfter(h, targetTs) ==
    LET i == FirstAtOrAfter(h, targetTs)
    IN  IF i > Len(h) THEN Null ELSE Some(h[i].goldPrice)

\* Mutation of Unresolved: a prediction is given up, uncounted, as soon as the history
\* holds a snapshot of its own time or later
RECURSIVE UnresolvedUntilExpiry(_, _, _)
UnresolvedUntilExpiry(preds, h, horizon) ==
    IF Len(preds) = 0 THEN <<>>
    ELSE IF \/ IsFinite(valueAtOrAfter(h, preds[1].t + horizon))
            \/ (Len(h) > 0 /\ h[Len(h)].t >= preds[1].t)
         THEN UnresolvedUntilExpiry(Tail(preds), h, horizon)
         ELSE <<preds[1]>> \o UnresolvedUntilExpiry(Tail(preds), h, horizon)

\* updateMetrics: the predictions that stay pending, and the metrics after the resolved ones
RECURSIVE Unresolved(_, _, _)
Unresolved(preds, h, horizon) ==
    IF Len(preds) = 0 THEN <<>>
    ELSE IF IsFinite(valueAtOrAfter(h, preds[1].t + horizon))
         THEN Unresolved(Tail(preds), h, horizon)
         ELSE <<preds[1]>> \o Unresolved(Tail(preds), h, horizon)

\* Mutation of Resolved: a realized price equal to the base price counts as up
RECURSIVE ResolvedTiesUp(_, _, _, _)
ResolvedTiesUp(m, preds, h, horizon) ==
    IF Len(preds) = 0 THEN m
    ELSE LET realized == valueAtOrAfter(h, preds[1].t + horizon)
             pred == preds[1]
         IN  IF ~IsFinite(realized) THEN ResolvedTiesUp(m, Tail(preds), h, horizon)
             ELSE LET actualUp == IF Val(realized) >= pred.basePrice THEN 1 ELSE 0
                      predictedUp == IF pred.pUp >= 50 THEN 1 ELSE 0
                      p == clamp(pred.pUp, 0, 100)
                      m2 == [ total |-> m.total + 1,
                              correct |-> m.correct + (IF predictedUp = actualUp THEN 1 ELSE 0),
                              brierSum |-> m.brierSum
                                           + (p - 100 * actualUp) * (p - 100 * actualUp) ]
                  IN  ResolvedTiesUp(m2, Tail(preds), h, horizon)

RECURSIVE Resolved(_, _, _, _)
Resolved(m, preds, h, horizon) ==
    IF Len(preds) = 0 THEN m
    ELSE LET realized == valueAtOrAfter(h, preds[1].t + horizon)
             pred == preds[1]
         IN  IF ~IsFinite(realized) THEN Resolved(m, Tail(preds), h, horizon)
             ELSE LET actualUp == IF Val(realized) > pred.basePrice THEN 1 ELSE 0
                      predictedUp == IF pred.pUp >= 50 THEN 1 ELSE 0
                      p == clamp(pred.pUp, 0, 100)
                      m2 == [ total |-> m.total + 1,
                              correct |-> m.correct + (IF predictedUp = actualUp THEN 1 ELSE 0),
                              \* (p - actualUp)^2, in ten-thousandths
                              brierSum |-> m.brierSum
                                           + (p - 100 * actualUp) * (p - 100 * actualUp) ]
                  IN  Resolved(m2, Tail(preds), h, horizon)

\* getSeriesValue(snapshot, key); a snapshot the model carries without its fields has
\* no fresh field
getSeriesValue(snapshot, key) ==
    LET field(k) == IF "fields" \in DOMAIN snapshot /\ k \in DOMAIN snapshot.fields
                    THEN getFieldValue(snapshot, k) ELSE Null
    IN  IF key = "gold" THEN Some(snapshot.goldPrice)
        ELSE IF key = "tgju_gold"
        THEN IF field("tgju_gold_irg18") # Null THEN field("tgju_gold_irg18")
             ELSE field("tgju_gold_irg18_buy")
        ELSE field(key)

\* valueAtOrBefore(field, targetTs): the newest finite value not after targetTs
valueAtOrBefore(h, field, targetTs) ==
    LET found == {i \in 1..Len(h) : /\ h[i].t <= targetTs
                                    /\ IsFinite(getSeriesValue(h[i], field))}
    IN  IF found = {} THEN Null
        ELSE getSeriesValue(h[CHOOSE i \in found : \A j \in found : j <= i], field)

\* a quotient the score reads, kept as numerator and denominator
Ratio(n, d) == [num |-> n, den |-> d]
Sign(r) == IF r.num = 0 THEN 0 ELSE IF (r.num > 0) = (r.den > 0) THEN 1 ELSE 0 - 1
RatioSum(a, b) == Ratio(a.num * b.den + b.num * a.den, a.den * b.den)
RatioEq(a, b) == a.num * b.den = b.num * a.den

\* pctChange on two numbers
pctChange(current, previous) ==
    IF ~IsFinite(current) \/ ~IsFinite(previous) \/ Val(previous) = 0 THEN Null
    ELSE Some(Ratio(Val(current) - Val(previous), Abs(Val(previous))))

\* pctChange on two quotients: (current - previous) / |previous|
pctChangeRatio(current, previous) ==
    IF ~IsFinite(current) \/ ~IsFinite(previous) \/ Val(previous).num = 0 THEN Null
    ELSE Some(Ratio(Sign(RatioSum(Val(current),
                                  Ratio(0 - Val(previous).num, Val(previous).den))), 1))

momentum(h, field, lookbackMin) ==
    IF Len(h) = 0 THEN Null
    ELSE pctChange(getSeriesValue(h[Len(h)], field),
                   valueAtOrBefore(h, field, h[Len(h)].t - lookbackMin))

\* the finite values of field in the snapshots not older than the cutoff
RECURSIVE SeriesSince(_, _, _)
SeriesSince(h, field, cutoff) ==
    IF Len(h) = 0 THEN <<>>
    ELSE LET v == getSeriesValue(h[1], field)
         IN  (IF h[1].t >= cutoff /\ IsFinite(v) THEN <<Val(v)>> ELSE <<>>)
             \o SeriesSince(Tail(h), field, cutoff)

RECURSIVE Returns(_)
Returns(values) ==
    IF Len(values) < 2 THEN <<>>
    ELSE LET r == pctChange(Some(values[2]), Some(values[1]))
         IN  (IF IsFinite(r) THEN <<Val(r)>> ELSE <<>>) \o Returns(Tail(values))

returnsOver(h, field, lookbackMin) ==
    IF Len(h) = 0 THEN <<>>
    ELSE Returns(SeriesSince(h, field, h[Len(h)].t - lookbackMin))

\* stdDev, as null, zero or positive: zero exactly when the values are all equal
stdDev(values) ==
    IF Len(values) < 2 THEN Null
    ELSE IF \A i \in 1..Len(values) : RatioEq(values[i], values[1])
    THEN Some(Ratio(0, 1))
    ELSE Some(Ratio(1, 1))

\* the ratios gold / tgju_gold of the snapshots not older than the cutoff
RECURSIVE RatiosSince(_, _)
RatiosSince(h, cutoff) ==
    IF Len(h) = 0 THEN <<>>
    ELSE LET tgju == getSeriesValue(h[1], "tgju_gold")
         IN  (IF h[1].t >= cutoff /\ IsFinite(tgju) /\ Val(tgju) # 0
              THEN <<Ratio(h[1].goldPrice, Val(tgju))>> ELSE <<>>)
             \o RatiosSince(Tail(h), cutoff)

RECURSIVE RatioTotal(_)
RatioTotal(ratios) ==
    IF Len(ratios) = 0 THEN Ratio(0, 1) ELSE RatioSum(ratios[1], RatioTotal(Tail(ratios)))

\* mean of the ratios
rollingGoldRatioMean(h, lookbackMin) ==
    IF Len(h) = 0 THEN Null
    ELSE LET ratios == RatiosSince(h, h[Len(h)].t - lookbackMin)
         IN  IF Len(ratios) = 0 THEN Null
             ELSE Some(Ratio(RatioTotal(ratios).num, RatioTotal(ratios).den * Len(ratios)))

\* the divergence of buildSignal: the ratio of the latest snapshot against the mean
divergence(h, lookbackMin) ==
    IF Len(h) = 0 THEN Null
    ELSE LET tgjuNow == getSeriesValue(h[Len(h)], "tgju_gold")
             ratioMean == rollingGoldRatioMean(h, lookbackMin)
         IN  IF IsFinite(tgjuNow) /\ Val(tgjuNow) # 0 /\ IsFinite(ratioMean)
             THEN pctChangeRatio(Some(Ratio(h[Len(h)].goldPrice, Val(tgjuNow))), ratioMean)
             ELSE Null

\* the inputs of buildSignal that the model's feature keys feed
inputs(h, sett) ==
    [ goldMom5 |-> momentum(h, "gold", 5),
      goldMom15 |-> momentum(h, "gold", 15),
      tgjuGoldMom5 |-> momentum(h, "tgju_gold", 5),
      dollarMom5 |-> momentum(h, "price_dollar_rl", 5),
      onsMom5 |-> momentum(h, "ons", 5),
      volatility15 |-> stdDev(returnsOver(h, "gold", 15)),
      divergence |-> divergence(h, Max(120, sett.predictionHorizonMin * 4)) ]

\* every term of the score is 0: tanhNorm gives 0 on null and on 0
ScoreIsZero(inp) == \A k \in DOMAIN inp : IsFinite(inp[k]) => Sign(Val(inp[k])) = 0

\* some snapshot is at least the momentum lookback older than the latest one:
\* valueAtOrBefore(field, latest.t - 5 min) finds a value
HasBaseline(h) ==
    \E i \in 1..Len(h) : h[i].t <= h[Len(h)].t - MOMENTUM_LOOKBACK_MIN

\* The signals buildSignal can return for history h.  Without a baseline every
\* momentum is null and the score is -0.14 tanh(divergence) - 0.22 tanh(volatility),
\* inside (-0.36, 0.14]: pUp = sigmoid(2 score) stays between 33% and 56%.
Scored(h) ==
    LET latest == h[Len(h)]
        reachable == IF HasBaseline(h) THEN PUpValues
                     ELSE {p \in PUpValues : /\ p >= MinPUpWithoutMomentum
                                             /\ p <= MaxPUpWithoutMomentum}
    IN  IF Len(h) = 1 /\ ScoreIsZero(inputs(h, settings))
        THEN \* no baseline for any momentum, one ratio in the rolling mean: score 0
             { [pUp |-> 50, confidence |-> 0, price |-> latest.goldPrice,
                timestamp |-> latest.t] }
        ELSE UNION { { [pUp |-> p, confidence |-> c, price |-> latest.goldPrice,
                        timestamp |-> latest.t] :
                       c \in {x \in ConfidenceValues : x <= 2 * Abs(p - 50)} } :
                     p \in reachable }

\* Mutation of buildSignal: without a latest snapshot the signal is the last outcome
\* of the scorer instead of the neutral one
buildSignalKeepsLast(h) ==
    IF Len(h) = 0
    THEN { [pUp |-> p, confidence |-> 0, price |-> 0, timestamp |-> now,
             score |-> 0, coverage |-> 0, freshness |-> 0] : p \in PUpValues }
    ELSE Scored(h)

buildSignal(h) ==
    IF Len(h) = 0
    THEN { [pUp |-> 50, confidence |-> 0, price |-> 0, timestamp |-> now,
             score |-> 0, coverage |-> 0, freshness |-> 0] }
    ELSE Scored(h)

\* the volatility estimateZones assumes without two returns, in millionths
DEFAULT_VOL == 1800

\* the largest r with r * r <= n
Isqrt(n) == CHOOSE r \in 0..600 : r * r <= n /\ (r + 1) * (r + 1) > n

\* Math.max(1, predictionHorizonMin / stepMin) in hundredths, stepMin being
\* Math.max(0.5, pollIntervalMs / 60000)
Steps100(sett) ==
    Max(100, (sett.predictionHorizonMin * MsPerMinute)
                 \div (Max(MsPerMinute \div 2, sett.pollIntervalMs) \div 100))

\* 0.0018 * sqrt(steps) * 1.2, in thousandths
DefaultSpread(sett) == (DEFAULT_VOL * 12 * Isqrt(Steps100(sett))) \div 100000

\* the spreads vol * sqrt(steps) * 1.2 of a volatility that is not null: below one
\* thousandth, inside the range, above it
SpreadValues == {0, 20, 80}

\* the spreads estimateZones can compute over history h
ZoneSpreads(h, sett) ==
    LET vol == stdDev(returnsOver(h, "gold", Max(10, sett.predictionHorizonMin)))
    IN  IF ~IsFinite(vol) THEN {DefaultSpread(sett)}
        ELSE IF Sign(Val(vol)) = 0 THEN {0}
        ELSE SpreadValues

\* Mutation of estimateZones: the range is not clamped
estimateZonesUnclamped(signal, spread) ==
    LET rangePct == spread
        driftPct == (signal.pUp - 50) * rangePct * 23
        p == signal.price
        upLow == p * (1000000 + Max(0, driftPct) + rangePct * 300)
        upHigh == p * (1000000 + Max(0, driftPct) + rangePct * 900)
        downHigh == p * (1000000 - Max(0, 0 - driftPct) - rangePct * 300)
        downLow == p * (1000000 - Max(0, 0 - driftPct) - rangePct * 900)
    IN  [ rangePct |-> rangePct,
          driftPct |-> driftPct,
          expectedStop |-> IF signal.pUp >= 50
                           THEN upLow + (upHigh - upLow) \div 2
                           ELSE downLow + (downHigh - downLow) \div 2,
          upLow |-> Max(0, upLow),
          upHigh |-> Max(0, upHigh),
          downLow |-> Max(0, downLow),
          downHigh |-> Max(0, downHigh) ]

\* estimateZones(signal); spread is vol * sqrt(steps) * 1.2, in thousandths
estimateZones(signal, spread) ==
    LET rangePct == clamp(spread, MinRangePerMille, MaxRangePerMille)
        driftPct == (signal.pUp - 50) * rangePct * 23
        p == signal.price
        upLow == p * (1000000 + Max(0, driftPct) + rangePct * 300)
        upHigh == p * (1000000 + Max(0, driftPct) + rangePct * 900)
        downHigh == p * (1000000 - Max(0, 0 - driftPct) - rangePct * 300)
        downLow == p * (1000000 - Max(0, 0 - driftPct) - rangePct * 900)
    IN  [ rangePct |-> rangePct,
          driftPct |-> driftPct,
          \* (low + high) / 2, taken on the halves to stay inside 32 bits
          expectedStop |-> IF signal.pUp >= 50
                           THEN upLow + (upHigh - upLow) \div 2
                           ELSE downLow + (downHigh - downLow) \div 2,
          upLow |-> Max(0, upLow),
          upHigh |-> Max(0, upHigh),
          downLow |-> Max(0, downLow),
          downHigh |-> Max(0, downHigh) ]

\* The fee-inclusive edges of chooseDecision, null when the cost (the proceeds) of
\* acting now is not positive.  They keep their sign and their zero: each is the
\* numerator of the code's quotient over the positive denominator
\* 10^6 * (1000 + buyFee), resp. 10^6 * (1000 - sellFee), per toman of price
\* (price * 10^9 would leave 32 bits).
stopFactor(signal, zones) ==
    IF signal.price = 0 THEN 0 ELSE zones.expectedStop \div signal.price

buyEdgePct(signal, zones, prof) ==
    IF signal.price * (1000 + prof.buyFeePct) > 0
    THEN Some(stopFactor(signal, zones) * (1000 - prof.sellFeePct)
              - 1000000 * (1000 + prof.buyFeePct))
    ELSE Null

sellEdgePct(signal, zones, prof) ==
    IF signal.price * (1000 - prof.sellFeePct) > 0
    THEN Some(1000000 * (1000 - prof.sellFeePct)
              - stopFactor(signal, zones) * (1000 + prof.buyFeePct))
    ELSE Null

\* Mutation of thresholdGate: the thresholds without the confidence check
thresholdGateNoConfidence(signal, sett) ==
    IF Ge(signal.pUp, sett.buyThreshold)
    THEN [action |-> "BUY", reason |-> "P(up) >= buyThreshold"]
    ELSE IF Le(signal.pUp, sett.sellThreshold)
    THEN [action |-> "SELL", reason |-> "P(up) <= sellThreshold"]
    ELSE [action |-> "HOLD", reason |-> "inside neutral zone"]

\* chooseDecision, first block: the confidence, then the thresholds
thresholdGate(signal, sett) ==
    IF Lt(signal.confidence, sett.minConfidence)
    THEN [action |-> "HOLD", reason |-> "confidence below threshold"]
    ELSE IF Ge(signal.pUp, sett.buyThreshold)
    THEN [action |-> "BUY", reason |-> "P(up) >= buyThreshold"]
    ELSE IF Le(signal.pUp, sett.sellThreshold)
    THEN [action |-> "SELL", reason |-> "P(up) <= sellThreshold"]
    ELSE [action |-> "HOLD", reason |-> "inside neutral zone"]

\* Mutation of inventoryGate: the gold check without the cash check
inventoryGateGoldOnly(d, signal, prof) ==
    IF d.action = "SELL" /\ prof.goldGrams <= 0
    THEN [action |-> "HOLD", reason |-> "no gold holdings to sell"]
    ELSE d

\* chooseDecision, second block: the cash for one gram, the gold to sell
inventoryGate(d, signal, prof) ==
    IF d.action = "BUY" /\ prof.cashIrr * 1000 < signal.price * (1000 + prof.buyFeePct)
    THEN [action |-> "HOLD", reason |-> "not enough cash for 1g including fee"]
    ELSE IF d.action = "SELL" /\ prof.goldGrams <= 0
    THEN [action |-> "HOLD", reason |-> "no gold holdings to sell"]
    ELSE d

\* Mutation of edgeGate: only the edge of a SELL is tested
edgeGateSellOnly(d, buyEdge, sellEdge) ==
    IF d.action = "SELL" /\ IsFinite(sellEdge) /\ Val(sellEdge) <= 0
    THEN [action |-> "HOLD", reason |-> "SELL edge does not clear fees"]
    ELSE d

\* chooseDecision, third block: a finite edge that is not positive
edgeGate(d, buyEdge, sellEdge) ==
    IF d.action = "BUY" /\ IsFinite(buyEdge) /\ Val(buyEdge) <= 0
    THEN [action |-> "HOLD", reason |-> "BUY edge does not clear fees"]
    ELSE IF d.action = "SELL" /\ IsFinite(sellEdge) /\ Val(sellEdge) <= 0
    THEN [action |-> "HOLD", reason |-> "SELL edge does not clear fees"]
    ELSE d

\* Mutation of cooldownGate: the cooldown applied whatever the action so far
cooldownGateAnyAction(d, nowMs, sett, st) ==
    LET elapsed == nowMs - st.lastFetchAt
    IN  IF /\ st.lastFetchAt # 0
           /\ elapsed < sett.actionCooldownMin
           /\ st.decision.action # "HOLD"
        THEN [action |-> "HOLD", reason |-> "cooldown active",
              cooldownLeft |-> sett.actionCooldownMin - elapsed]
        ELSE [action |-> d.action, reason |-> d.reason, cooldownLeft |-> 0]

\* chooseDecision, last block: the cooldown, measured from state.lastFetchAt against
\* the action of the published decision; cooldownLeft is the number in the reason
cooldownGate(d, nowMs, sett, st) ==
    LET elapsed == nowMs - st.lastFetchAt
    IN  IF /\ d.action # "HOLD"
           /\ st.lastFetchAt # 0
           /\ elapsed < sett.actionCooldownMin
           /\ st.decision.action # "HOLD"
        THEN [action |-> "HOLD", reason |-> "cooldown active",
              cooldownLeft |-> sett.actionCooldownMin - elapsed]
        ELSE [action |-> d.action, reason |-> d.reason, cooldownLeft |-> 0]

\* the action and the reason that reach the cooldown block
gatedDecision(signal, zones, prof, sett) ==
    edgeGate(inventoryGate(thresholdGate(signal, sett), signal, prof),
             buyEdgePct(signal, zones, prof), sellEdgePct(signal, zones, prof))

\* chooseDecision(signal, zones, nowMs), with the profile, the settings and the
\* published state it reads
chooseDecision(signal, zones, nowMs, prof, sett, st) ==
    LET d == cooldownGate(gatedDecision(signal, zones, prof, sett), nowMs, sett, st)
    IN  [ action |-> d.action,
          reason |-> d.reason,
          cooldownLeft |-> d.cooldownLeft,
          expectedPrice |-> zones.expectedStop,
          buyEdgePct |-> buyEdgePct(signal, zones, prof),
          sellEdgePct |-> sellEdgePct(signal, zones, prof) ]

\* history.slice(-CHART_POINTS).map(s => ({t, p}))
priceHistory(h) ==
    LET from == Max(1, Len(h) - CHART_POINTS + 1)
    IN  [i \in 1..(Len(h) - from + 1) |->
            [t |-> h[from + i - 1].t, p |-> h[from + i - 1].goldPrice]]

pushBounded(arr, item, max) ==
    LET a == Append(arr, item)
    IN  IF Len(a) > max THEN SubSeq(a, Len(a) - max + 1, Len(a)) ELSE a

\* formatEventLine: "[iso|nowMs|seq] msg"
formatEventLine(msg) == [t |-> now, seq |-> eventSeq + 1, msg |-> msg]

\* the published state after addLog(msg)
addLog(st, msg) ==
    [st EXCEPT !.logs = pushBounded(st.logs, formatEventLine(msg), MAX_LOG_LINES)]

\* Mutation of addError: recording the error also drops the published signal
addErrorDropsSignal(st, msg) ==
    [st EXCEPT !.errors = pushBounded(st.errors, formatEventLine(msg), MAX_LOG_LINES),
               !.lastError = Some(formatEventLine(msg)),
               !.status = "error",
               !.signal = Null]

\* the published state after addError(msg)
addError(st, msg) ==
    [st EXCEPT !.errors = pushBounded(st.errors, formatEventLine(msg), MAX_LOG_LINES),
               !.lastError = Some(formatEventLine(msg)),
               !.status = "error"]

\* normalizeSnapshot on a stored row: a legacy row whose goldPrice is still the raw
\* price (ratio within 1%) is scaled to toman, and every field is rebuilt.  A row
\* written without fields stands for one whose fields are not followed.
normalizeSnapshot(row) ==
    LET legacy == /\ IsFinite(row.rawPrice)
                  /\ Val(row.rawPrice) # 0
                  /\ IF Val(row.rawPrice) > 0
                     THEN /\ 100 * row.goldPrice > 99 * Val(row.rawPrice)
                          /\ 100 * row.goldPrice < 101 * Val(row.rawPrice)
                     ELSE /\ 100 * row.goldPrice < 99 * Val(row.rawPrice)
                          /\ 100 * row.goldPrice > 101 * Val(row.rawPrice)
        scaled == [row EXCEPT !.goldPrice =
                      IF legacy THEN Val(normalizeTalaseaPriceToToman(Some(row.goldPrice)))
                      ELSE row.goldPrice]
    IN  IF "fields" \in DOMAIN row
        THEN [scaled EXCEPT !.fields =
                 [key \in FEATURE_KEYS |-> normalizeField(key, row.fields[key], row.t, settings)]]
        ELSE scaled

MapNormalize(rows) == [i \in 1..Len(rows) |-> normalizeSnapshot(rows[i])]

\* rows with t >= minTs, oldest first (the rows are stored in insertion order)
RowsSince(rows, minTs) ==
    LET Since(row) == row.t >= minTs
    IN  SelectSeq(rows, Since)

\* prisma.snapshot.findMany(where t >= minTs, orderBy t desc, take n), reversed
findMany(rows, minTs, n) ==
    LET r == RowsSince(rows, minTs)
    IN  IF Len(r) > n THEN SubSeq(r, Len(r) - n + 1, Len(r)) ELSE r

\* trimDatabaseHistory(nowMs)
trimDatabaseHistory(d, nowMs, s) ==
    LET minDate == nowMs - s.historyRetentionHours * MinutesPerHour
    IN  [d EXCEPT !.snapshots = RowsSince(d.snapshots, minDate),
                  !.signals = RowsSince(d.signals, minDate)]

-----------------------------------------------------------------------------
(* Initial state: the engine as constructed from the environment *)

\* the settings and the profile the constructor reads from the environment
EnvSettings ==
    { DefaultSettings,
      [DefaultSettings EXCEPT !.minConfidence = 0],
      [DefaultSettings EXCEPT !.buyThreshold = 30, !.sellThreshold = 20] }

EnvProfiles ==
    { DefaultProfile,
      [DefaultProfile EXCEPT !.cashIrr = 5000, !.goldGrams = 2],
      [DefaultProfile EXCEPT !.cashIrr = 5000, !.goldGrams = 2,
                             !.buyFeePct = 0, !.sellFeePct = 0] }

FundedProfile == [DefaultProfile EXCEPT !.cashIrr = 5000, !.goldGrams = 2]

\* price.js as loaded, before main(): the state object (an empty history, no error
\* line, no signal), no tick in flight.  cycles counts the calls of runTickSafely
CliLoaded ==
    [pc |-> "load", config |-> Null, history |-> <<>>, errors |-> <<>>,
     running |-> FALSE, started |-> 0, lastSignal |-> Null, cycles |-> 0]

\* index.js as loaded: the state object, no fetch in flight, nothing notified.
\* notifications counts the calls of notify, quotes the prices pushed and failures the
\* error lines written
WatcherLoaded ==
    [pc |-> "prompt", mode |-> "sell", targetNum |-> 0, lastAlerted |-> FALSE,
     prices |-> <<>>, errors |-> <<>>, inflight |-> 0, notifications |-> 0,
     quotes |-> 0, failures |-> 0]

\* the clients of the engine: each may hold an open /api/events stream and may hold an
\* object a getter returned
Observers == {"a", "b"}

Constructed(envSettings, envProfile, stored, t0) ==
    /\ now = t0
    /\ settings = envSettings
    /\ profile = envProfile
    /\ history = <<>>
    /\ pendingPredictions = <<>>
    /\ metrics = [total |-> 0, correct |-> 0, brierSum |-> 0]
    /\ timer = Null
    /\ running = FALSE
    /\ initialized = FALSE
    \* lastRetentionSweepAt = 0, the epoch: more than a sweep interval before t0
    /\ lastRetentionSweepAt = t0 - RETENTION_SWEEP_INTERVAL_MIN
    /\ eventSeq = 0
    /\ state = [InitialState EXCEPT !.settings = envSettings, !.profile = envProfile]
    /\ db = [settings |-> Null, profile |-> Null, snapshots |-> stored, signals |-> <<>>]
    /\ ticks = <<>>
    /\ calls = <<>>
    /\ startPc = "new"
    /\ lastEmitted = [action |-> "HOLD", at |-> 0]
    /\ updatesIssued = 0
    /\ event = [op |-> "constructed", notified |-> FALSE]
    /\ observers = [o \in Observers |->
                        [subscribed |-> FALSE, received |-> 0, holds |-> Null]]
    /\ cli = CliLoaded
    /\ watcher = WatcherLoaded

\* the snapshot an earlier run left in the database, a momentum lookback ago
StoredSnapshot == [t |-> 1, goldPrice |-> 1000, rawPrice |-> Some(1)]

\* no environment variable set, an empty database
Init == Constructed(DefaultSettings, DefaultProfile, <<>>, 1)

\* CASH_IRR and GOLD_GRAMS set, an empty database
InitPolicy == Constructed(DefaultSettings, FundedProfile, <<>>, 1)

\* any of the environments above, over the database of an earlier run
InitDecision ==
    \E s \in EnvSettings, p \in EnvProfiles :
        Constructed(s, p, <<StoredSnapshot>>, StoredSnapshot.t + MOMENTUM_LOOKBACK_MIN)

-----------------------------------------------------------------------------
(* Listeners and getters *)

\* JSON.stringify writes a non-finite number as null
Jsonify(rec) == [k \in DOMAIN rec |-> IF rec[k] = NaN THEN Null ELSE rec[k]]

\* Mutation of getState: the engine's own state object is handed out
getStateByReference(st) == [ref |-> "engine", kind |-> "state", val |-> st]

\* getState(): JSON.parse(JSON.stringify(this.state)), a deep copy of st
getState(st) ==
    [ref |-> "copy", kind |-> "state",
     val |-> [st EXCEPT !.settings = Jsonify(st.settings), !.profile = Jsonify(st.profile)]]

\* getProfile(): { ...this.profile }, a copy of a flat object
getProfile == [ref |-> "copy", kind |-> "profile", val |-> profile]

\* getSettings(): { ...this.settings }, a copy of a flat object
getSettings == [ref |-> "copy", kind |-> "settings", val |-> settings]

\* Mutation of publish: only listeners that hold no state yet are called
publishToNew(st, n) ==
    observers' = [o \in Observers |->
                     IF observers[o].subscribed /\ ~IsFinite(observers[o].holds)
                     THEN [subscribed |-> TRUE, received |-> observers[o].received + n,
                           holds |-> Some(getState(st))]
                     ELSE observers[o]]

\* publish(), called n times in one turn on the published state st: every listener in
\* this.listeners is called with getState()
publish(st, n) ==
    observers' = [o \in Observers |->
                     IF observers[o].subscribed
                     THEN [subscribed |-> TRUE, received |-> observers[o].received + n,
                           holds |-> Some(getState(st))]
                     ELSE observers[o]]

-----------------------------------------------------------------------------
(* The clock *)

Advance(d) ==
    /\ now + d <= MaxTime
    /\ now' = now + d
    /\ UNCHANGED <<settings, profile, history, pendingPredictions, metrics, timer,
                   running, initialized, lastRetentionSweepAt, eventSeq, state, db,
                   ticks, calls, startPc, lastEmitted, updatesIssued, event, observers,
                   cli, watcher>>

-----------------------------------------------------------------------------
(* runTickSafely and tick *)

\* Mutation of Busy: the guard never sees a tick in flight
BusyNever == FALSE

\* the re-entrancy guard of runTickSafely: "if (this.running) return"
Busy == running

\* runTickSafely up to the first await of tick(): the guard, then the synchronous head
\* of tick() and of fetchSnapshot()
runTickSafely(owner) ==
    IF Busy
    THEN /\ event' = [op |-> "trigger", notified |-> FALSE, by |-> owner, ran |-> FALSE]
         /\ UNCHANGED <<running, state, ticks>>
    ELSE /\ running' = TRUE
         /\ state' = [state EXCEPT !.lastFetchAt = now,
                                   !.nextFetchAt = now + settings.pollIntervalMs \div MsPerMinute]
         /\ ticks' = Append(ticks, [pc |-> "fetch", owner |-> owner, t |-> now,
                                    snapshot |-> Null])
         /\ event' = [op |-> "trigger", notified |-> FALSE, by |-> owner, ran |-> TRUE]

\* the timer fires
TimerFire ==
    /\ IsFinite(timer)
    /\ runTickSafely("timer")
    /\ UNCHANGED <<now, cli, watcher, observers, updatesIssued, settings, profile, history, pendingPredictions, metrics, timer,
                   initialized, lastRetentionSweepAt, eventSeq, db, calls, startPc,
                   lastEmitted>>

\* POST /api/actions/fetch
forceTick ==
    /\ runTickSafely("force")
    /\ UNCHANGED <<now, cli, watcher, observers, updatesIssued, settings, profile, history, pendingPredictions, metrics, timer,
                   initialized, lastRetentionSweepAt, eventSeq, db, calls, startPc,
                   lastEmitted>>

\* the finally block of runTickSafely for tick i, on the published state st; when the
\* tick was the one start() awaits, start() goes on in the same turn
EndTick(i, st) ==
    /\ running' = FALSE
    /\ ticks' = RemoveAt(ticks, i)
    /\ IF ticks[i].owner = "start"
       THEN \* publish() in the finally block, then publish() in start()
            /\ timer' = Some(settings.pollIntervalMs)
            /\ state' = [st EXCEPT !.status = "running"]
            /\ startPc' = "started"
            /\ publish([st EXCEPT !.status = "running"], 2)
       ELSE /\ state' = st
            /\ publish(st, 1)
            /\ UNCHANGED <<timer, startPc>>

\* Mutation of ThrowTick: the catch block without the finally block, the guard is
\* not released
ThrowTickKeepsGuard(i, msg) ==
    /\ eventSeq' = eventSeq + 1
    /\ UNCHANGED running
    /\ ticks' = RemoveAt(ticks, i)
    /\ IF ticks[i].owner = "start"
       THEN /\ timer' = Some(settings.pollIntervalMs)
            /\ state' = [addError(state, msg) EXCEPT !.status = "running"]
            /\ startPc' = "started"
            /\ publish([addError(state, msg) EXCEPT !.status = "running"], 2)
       ELSE /\ state' = addError(state, msg)
            /\ publish(addError(state, msg), 1)
            /\ UNCHANGED <<timer, startPc>>
    /\ event' = [op |-> "tickFailed", notified |-> TRUE, at |-> ticks[i].pc, msg |-> msg]

\* tick i throws msg at its current await: the catch block, then the finally block
ThrowTick(i, msg) ==
    /\ eventSeq' = eventSeq + 1
    /\ EndTick(i, addError(state, msg))
    /\ event' = [op |-> "tickFailed", notified |-> TRUE, at |-> ticks[i].pc, msg |-> msg]

\* tick i returns: the rest of the try block, then the finally block
ReturnTick(i) ==
    /\ EndTick(i, [state EXCEPT !.status = "running", !.lastError = Null])
    /\ event' = [op |-> "tickDone", notified |-> TRUE]

\* a fetch times out or answers with a non-success status
TickFetchFail(i) ==
    /\ ticks[i].pc = "fetch"
    /\ ThrowTick(i, "fetch failed")
    /\ UNCHANGED <<now, cli, watcher, updatesIssued, settings, profile, history, pendingPredictions, metrics,
                   initialized, lastRetentionSweepAt, db, calls, lastEmitted>>

\* both fetches answer; raw is what the price field parses to
TickFetchOk(i, raw) ==
    /\ ticks[i].pc = "fetch"
    /\ LET price == normalizeTalaseaPriceToToman(raw)
       IN  IF ~IsFinite(price)
           THEN /\ ThrowTick(i, "Talasea price parse failed")
                /\ UNCHANGED history
           ELSE LET snapshot == [t |-> ticks[i].t, goldPrice |-> Val(price), rawPrice |-> raw]
                IN  /\ history' = trimHistory(Append(history, snapshot), snapshot.t, settings)
                    /\ ticks' = [ticks EXCEPT ![i].pc = "snapshotCreate",
                                              ![i].snapshot = Some(snapshot)]
                    /\ event' = [op |-> "tickFetched", notified |-> FALSE]
                    /\ UNCHANGED <<running, timer, state, startPc, eventSeq, observers>>
    /\ UNCHANGED <<now, cli, watcher, updatesIssued, settings, profile, pendingPredictions, metrics,
                   initialized, lastRetentionSweepAt, db, calls, lastEmitted>>

\* both fetches answer: fetchSnapshot on price, the price field of the answer of
\* talasea, and tgju, the answer of tgju at each feature key, with the fields it builds
TickFetchFields(i, price, tgju) ==
    /\ ticks[i].pc = "fetch"
    /\ LET rawTalaseaPrice == parseNumber(price)
           toman == normalizeTalaseaPriceToToman(rawTalaseaPrice)
       IN  IF ~IsFinite(toman)
           THEN /\ ThrowTick(i, "Talasea price parse failed")
                /\ UNCHANGED history
           ELSE LET snapshot == [t |-> ticks[i].t,
                                 goldPrice |-> Val(toman),
                                 rawPrice |-> rawTalaseaPrice,
                                 fields |-> [key \in FEATURE_KEYS |->
                                     fetchField(key, tgju[key], ticks[i].t, settings)]]
                IN  /\ history' = trimHistory(Append(history, snapshot), snapshot.t, settings)
                    /\ ticks' = [ticks EXCEPT ![i].pc = "snapshotCreate",
                                              ![i].snapshot = Some(snapshot)]
                    /\ event' = [op |-> "tickFetched", notified |-> FALSE,
                                 price |-> price, tgju |-> tgju]
                    /\ UNCHANGED <<running, timer, state, startPc, eventSeq, observers>>
    /\ UNCHANGED <<now, cli, watcher, updatesIssued, settings, profile, pendingPredictions,
                   metrics, initialized, lastRetentionSweepAt, db, calls, lastEmitted>>

\* prisma.snapshot.create rejects
TickSnapshotCreateFail(i) ==
    /\ ticks[i].pc = "snapshotCreate"
    /\ ThrowTick(i, "snapshot write failed")
    /\ UNCHANGED <<now, cli, watcher, updatesIssued, settings, profile, history, pendingPredictions, metrics,
                   initialized, lastRetentionSweepAt, db, calls, lastEmitted>>

\* Mutation of TickSnapshotCreateOk: the tick books the gram it recommends to buy or
\* to sell on the profile
TickSnapshotCreateOkBooksOrder(i, signal, rangePct) ==
    /\ ticks[i].pc = "snapshotCreate"
    /\ signal \in buildSignal(history)
    /\ LET snapshot == Val(ticks[i].snapshot)
           horizon == settings.predictionHorizonMin
           zones == estimateZones(signal, rangePct)
           decision == chooseDecision(signal, zones, snapshot.t, profile, settings, state)
       IN  /\ profile' = [profile EXCEPT !.goldGrams =
                              IF decision.action = "BUY" THEN @ + 1
                              ELSE IF decision.action = "SELL" THEN @ - 1
                              ELSE @]
           /\ db' = [db EXCEPT !.snapshots = Append(@, snapshot)]
           /\ metrics' = Resolved(metrics, pendingPredictions, history, horizon)
           /\ pendingPredictions' =
                  Append(Unresolved(pendingPredictions, history, horizon),
                         [t |-> snapshot.t, basePrice |-> snapshot.goldPrice,
                          pUp |-> signal.pUp])
           /\ state' = addLog([state EXCEPT !.signal = Some(signal),
                                            !.zones = Some(zones),
                                            !.decision = decision,
                                            !.metrics = metrics',
                                            !.profile = profile',
                                            !.historyPoints = Len(history),
                                            !.priceHistory = priceHistory(history)],
                              "tick")
           /\ eventSeq' = eventSeq + 1
           /\ lastEmitted' = IF decision.action # "HOLD"
                             THEN [action |-> decision.action, at |-> snapshot.t]
                             ELSE lastEmitted
           /\ ticks' = [ticks EXCEPT ![i].pc = "signalCreate"]
           /\ event' = [op |-> "tickComputed", notified |-> FALSE]
    /\ UNCHANGED <<now, cli, watcher, observers, updatesIssued, settings, history, timer, running, initialized,
                   lastRetentionSweepAt, calls, startPc>>

\* prisma.snapshot.create resolves: the compute phase up to prisma.signal.create
TickSnapshotCreateOk(i, signal, rangePct) ==
    /\ ticks[i].pc = "snapshotCreate"
    /\ signal \in buildSignal(history)
    /\ LET snapshot == Val(ticks[i].snapshot)
           horizon == settings.predictionHorizonMin
           zones == estimateZones(signal, rangePct)
           decision == chooseDecision(signal, zones, snapshot.t, profile, settings, state)
       IN  /\ db' = [db EXCEPT !.snapshots = Append(@, snapshot)]
           /\ metrics' = Resolved(metrics, pendingPredictions, history, horizon)
           /\ pendingPredictions' =
                  Append(Unresolved(pendingPredictions, history, horizon),
                         [t |-> snapshot.t, basePrice |-> snapshot.goldPrice,
                          pUp |-> signal.pUp])
           /\ state' = addLog([state EXCEPT !.signal = Some(signal),
                                            !.zones = Some(zones),
                                            !.decision = decision,
                                            !.metrics = metrics',
                                            !.profile = profile,
                                            !.historyPoints = Len(history),
                                            !.priceHistory = priceHistory(history)],
                              "tick")
           /\ eventSeq' = eventSeq + 1
           /\ lastEmitted' = IF decision.action # "HOLD"
                             THEN [action |-> decision.action, at |-> snapshot.t]
                             ELSE lastEmitted
           /\ ticks' = [ticks EXCEPT ![i].pc = "signalCreate"]
           /\ event' = [op |-> "tickComputed", notified |-> FALSE]
    /\ UNCHANGED <<now, cli, watcher, observers, updatesIssued, settings, profile, history, timer, running, initialized,
                   lastRetentionSweepAt, calls, startPc>>

\* prisma.signal.create rejects
TickSignalCreateFail(i) ==
    /\ ticks[i].pc = "signalCreate"
    /\ ThrowTick(i, "signal write failed")
    /\ UNCHANGED <<now, cli, watcher, updatesIssued, settings, profile, history, pendingPredictions, metrics,
                   initialized, lastRetentionSweepAt, db, calls, lastEmitted>>

\* prisma.signal.create resolves: the retention sweep is started when it is due
TickSignalCreateOk(i) ==
    /\ ticks[i].pc = "signalCreate"
    /\ LET snapshot == Val(ticks[i].snapshot)
       IN  /\ db' = [db EXCEPT !.signals =
                        Append(@, [t |-> snapshot.t, action |-> state.decision.action])]
           /\ IF snapshot.t - lastRetentionSweepAt >= RETENTION_SWEEP_INTERVAL_MIN
              THEN /\ ticks' = [ticks EXCEPT ![i].pc = "sweep"]
                   /\ event' = [op |-> "tickSignalSaved", notified |-> FALSE]
                   /\ UNCHANGED <<running, timer, state, startPc, observers>>
              ELSE ReturnTick(i)
    /\ UNCHANGED <<now, cli, watcher, updatesIssued, settings, profile, history, pendingPredictions, metrics,
                   initialized, lastRetentionSweepAt, eventSeq, calls, lastEmitted>>

\* trimDatabaseHistory rejects
TickSweepFail(i) ==
    /\ ticks[i].pc = "sweep"
    /\ ThrowTick(i, "retention sweep failed")
    /\ UNCHANGED <<now, cli, watcher, updatesIssued, settings, profile, history, pendingPredictions, metrics,
                   initialized, lastRetentionSweepAt, db, calls, lastEmitted>>

\* trimDatabaseHistory resolves
TickSweepOk(i) ==
    /\ ticks[i].pc = "sweep"
    /\ db' = trimDatabaseHistory(db, Val(ticks[i].snapshot).t, settings)
    /\ lastRetentionSweepAt' = Val(ticks[i].snapshot).t
    /\ ReturnTick(i)
    /\ UNCHANGED <<now, cli, watcher, updatesIssued, settings, profile, history, pendingPredictions, metrics,
                   initialized, eventSeq, calls, lastEmitted>>

-----------------------------------------------------------------------------
(* start, initializeFromDatabase, stop *)

\* engine.start() is called: initializeFromDatabase runs up to its first await
start ==
    /\ startPc = "new"
    /\ startPc' = "connecting"
    /\ event' = [op |-> "start", notified |-> FALSE]
    /\ UNCHANGED <<now, cli, watcher, observers, updatesIssued, settings, profile, history, pendingPredictions, metrics, timer,
                   running, initialized, lastRetentionSweepAt, eventSeq, state, db,
                   ticks, calls, lastEmitted>>

\* a query of initializeFromDatabase rejects: the catch block records it and rethrows,
\* start() rejects
InitializeFail ==
    /\ startPc \in {"connecting", "loading"}
    /\ state' = addError(state, "Database initialization failed")
    /\ eventSeq' = eventSeq + 1
    /\ startPc' = "failed"
    /\ event' = [op |-> "initFailed", notified |-> FALSE]
    /\ UNCHANGED <<now, cli, watcher, observers, updatesIssued, settings, profile, history, pendingPredictions, metrics, timer,
                   running, initialized, lastRetentionSweepAt, db, ticks, calls,
                   lastEmitted>>

\* the settings and profile rows are created when absent, read back and sanitized
InitializeConfig ==
    /\ startPc = "connecting"
    /\ LET dbSettings == IF IsFinite(db.settings) THEN Val(db.settings) ELSE settings
           dbProfile == IF IsFinite(db.profile) THEN Val(db.profile) ELSE profile
       IN  /\ SettingsAccepted(dbSettings)
           /\ settings' = sanitizeSettings(dbSettings)
           /\ profile' = sanitizeProfile(dbProfile)
           /\ db' = [db EXCEPT !.settings = Some(dbSettings), !.profile = Some(dbProfile)]
           /\ state' = [state EXCEPT !.settings = settings', !.profile = profile']
    /\ startPc' = "loading"
    /\ event' = [op |-> "initConfig", notified |-> FALSE]
    /\ UNCHANGED <<now, cli, watcher, observers, updatesIssued, history, pendingPredictions, metrics, timer, running, initialized,
                   lastRetentionSweepAt, eventSeq, ticks, calls, lastEmitted>>

\* the history is loaded, the database is swept, initializeFromDatabase returns and
\* start() calls runTickSafely
InitializeHistory ==
    /\ startPc = "loading"
    /\ LET minTs == now - settings.historyRetentionHours * MinutesPerHour
           rows == findMany(db.snapshots, minTs, settings.maxInMemoryPoints)
           loaded == MapNormalize(rows)
           st == addLog([state EXCEPT !.historyPoints = Len(loaded),
                                      !.priceHistory = priceHistory(loaded)],
                        "Loaded snapshots")
       IN  /\ history' = loaded
           /\ db' = trimDatabaseHistory(db, now, settings)
           /\ lastRetentionSweepAt' = now
           /\ eventSeq' = eventSeq + 1
           /\ initialized' = TRUE
           /\ IF Busy
              THEN \* runTickSafely returns at once and start() arms the timer
                   /\ timer' = Some(settings.pollIntervalMs)
                   /\ state' = [st EXCEPT !.status = "running"]
                   /\ startPc' = "started"
                   /\ publish([st EXCEPT !.status = "running"], 1)
                   /\ UNCHANGED <<running, ticks>>
              ELSE /\ running' = TRUE
                   /\ state' = [st EXCEPT
                          !.lastFetchAt = now,
                          !.nextFetchAt = now + settings.pollIntervalMs \div MsPerMinute]
                   /\ ticks' = Append(ticks, [pc |-> "fetch", owner |-> "start", t |-> now,
                                              snapshot |-> Null])
                   /\ startPc' = "firstTick"
                   /\ UNCHANGED <<timer, observers>>
    /\ event' = [op |-> "initDone", notified |-> Busy]
    /\ UNCHANGED <<now, cli, watcher, updatesIssued, settings, profile, pendingPredictions, metrics, calls,
                   lastEmitted>>

\* Mutation of stop: stopping the engine also clears the reliability metrics
stopClearsMetrics ==
    /\ timer' = Null
    /\ state' = [state EXCEPT !.status = "idle"]
    /\ metrics' = [total |-> 0, correct |-> 0, brierSum |-> 0]
    /\ publish([state EXCEPT !.status = "idle"], 1)
    /\ event' = [op |-> "stop", notified |-> TRUE]
    /\ UNCHANGED <<now, cli, watcher, updatesIssued, settings, profile, history, pendingPredictions,
                   running, initialized, lastRetentionSweepAt, eventSeq, db,
                   ticks, calls, startPc, lastEmitted>>

\* engine.stop(), on SIGINT / SIGTERM
stop ==
    /\ timer' = Null
    /\ state' = [state EXCEPT !.status = "idle"]
    /\ publish([state EXCEPT !.status = "idle"], 1)
    /\ event' = [op |-> "stop", notified |-> TRUE]
    /\ UNCHANGED <<now, cli, watcher, updatesIssued, settings, profile, history, pendingPredictions, metrics,
                   running, initialized, lastRetentionSweepAt, eventSeq, db,
                   ticks, calls, startPc, lastEmitted>>

\* the process exits and is started again: a new Engine is constructed from the same
\* environment over the same database
restart ==
    /\ settings' = DefaultSettings
    /\ profile' = DefaultProfile
    /\ history' = <<>>
    /\ pendingPredictions' = <<>>
    /\ metrics' = [total |-> 0, correct |-> 0, brierSum |-> 0]
    /\ timer' = Null
    /\ running' = FALSE
    /\ initialized' = FALSE
    /\ lastRetentionSweepAt' = now - RETENTION_SWEEP_INTERVAL_MIN
    /\ eventSeq' = 0
    /\ state' = [InitialState EXCEPT !.settings = DefaultSettings, !.profile = DefaultProfile]
    /\ ticks' = <<>>
    /\ calls' = <<>>
    /\ startPc' = "new"
    /\ lastEmitted' = [action |-> "HOLD", at |-> 0]
    /\ updatesIssued' = 0
    /\ event' = [op |-> "constructed", notified |-> FALSE]
    /\ observers' = [o \in Observers |->
                         [subscribed |-> FALSE, received |-> 0, holds |-> Null]]
    /\ UNCHANGED <<now, cli, watcher, db>>

-----------------------------------------------------------------------------
(* updateProfile and updateSettings *)

\* updateProfile(patch) up to its await: the profile is replaced, the upsert is issued
updateProfile(patch) ==
    /\ updatesIssued' = updatesIssued + 1
    /\ profile' = sanitizeProfile(Merge(profile, patch))
    /\ calls' = Append(calls, [kind |-> "profile", data |-> profile', before |-> profile,
                               published |-> state.profile, timer |-> timer])
    /\ event' = [op |-> "updateIssued", notified |-> FALSE, kind |-> "profile",
                 patch |-> patch]
    /\ UNCHANGED <<now, cli, watcher, observers, settings, history, pendingPredictions, metrics, timer,
                   running, initialized, lastRetentionSweepAt, eventSeq, state, db,
                   ticks, startPc, lastEmitted>>

\* the upsert of call i resolves: the rest of updateProfile / updateSettings
UpdateResolve(i) ==
    /\ i \in 1..Len(calls)
    /\ calls' = RemoveAt(calls, i)
    /\ IF calls[i].kind = "profile"
       THEN /\ db' = [db EXCEPT !.profile = Some(calls[i].data)]
            /\ state' = [state EXCEPT !.profile = profile]
            /\ publish([state EXCEPT !.profile = profile], 1)
            /\ event' = [op |-> "updateDone", notified |-> TRUE, kind |-> "profile", returned |-> profile,
                         call |-> calls[i]]
            /\ UNCHANGED timer
       ELSE /\ db' = [db EXCEPT !.settings = Some(calls[i].data)]
            /\ state' = [state EXCEPT !.settings = settings]
            /\ publish([state EXCEPT !.settings = settings], 1)
            /\ timer' = IF IsFinite(timer) /\ calls[i].previousPoll # settings.pollIntervalMs
                        THEN Some(settings.pollIntervalMs)
                        ELSE timer
            /\ event' = [op |-> "updateDone", notified |-> TRUE, kind |-> "settings", returned |-> settings,
                         call |-> calls[i]]
    /\ UNCHANGED <<now, cli, watcher, updatesIssued, settings, profile, history, pendingPredictions, metrics,
                   running, initialized, lastRetentionSweepAt, eventSeq,
                   ticks, startPc, lastEmitted>>

\* the upsert of call i rejects: the call rejects with the database error
UpdateReject(i) ==
    /\ i \in 1..Len(calls)
    /\ calls' = RemoveAt(calls, i)
    /\ event' = [op |-> "updateFailed", notified |-> FALSE, kind |-> calls[i].kind, call |-> calls[i]]
    /\ UNCHANGED <<now, cli, watcher, observers, updatesIssued, settings, profile, history, pendingPredictions, metrics, timer,
                   running, initialized, lastRetentionSweepAt, eventSeq, state, db,
                   ticks, startPc, lastEmitted>>

\* updateSettings(patch) up to its await: sanitizeSettings throws, or the settings are
\* replaced and the upsert is issued
updateSettings(patch) ==
    /\ updatesIssued' = updatesIssued + 1
    /\ IF ~SettingsAccepted(Merge(settings, patch))
       THEN /\ event' = [op |-> "updateInvalid", notified |-> FALSE, kind |-> "settings",
                         patch |-> patch]
            /\ UNCHANGED <<settings, calls>>
       ELSE /\ settings' = sanitizeSettings(Merge(settings, patch))
            /\ calls' = Append(calls, [kind |-> "settings", data |-> settings',
                                       before |-> settings, published |-> state.settings,
                                       timer |-> timer,
                                       previousPoll |-> settings.pollIntervalMs])
            /\ event' = [op |-> "updateIssued", notified |-> FALSE, kind |-> "settings",
                         patch |-> patch]
    /\ UNCHANGED <<now, cli, watcher, observers, profile, history, pendingPredictions, metrics, timer,
                   running, initialized, lastRetentionSweepAt, eventSeq, state, db,
                   ticks, startPc, lastEmitted>>

-----------------------------------------------------------------------------
(* subscribe, the getters, and what a client does with the object it holds *)

\* the frame of a step that touches no field of the engine
EngineUntouched ==
    UNCHANGED <<now, cli, watcher, settings, profile, history, pendingPredictions, metrics, timer,
                running, initialized, lastRetentionSweepAt, eventSeq, state, db,
                ticks, calls, startPc, lastEmitted, updatesIssued>>

\* subscribe(listener): the listener is added and called with getState() at once
subscribe(o) ==
    /\ ~observers[o].subscribed
    /\ observers' = [observers EXCEPT ![o] =
                         [subscribed |-> TRUE, received |-> @.received + 1,
                          holds |-> Some(getState(state))]]
    /\ event' = [op |-> "subscribe", notified |-> FALSE, who |-> o]
    /\ EngineUntouched

\* the function subscribe returned is called: this.listeners.delete(listener)
unsubscribe(o) ==
    /\ observers[o].subscribed
    /\ observers' = [observers EXCEPT ![o].subscribed = FALSE]
    /\ event' = [op |-> "unsubscribe", notified |-> FALSE, who |-> o]
    /\ EngineUntouched

\* o calls getState(), getProfile() or getSettings() and keeps the result
Get(o, kind) ==
    /\ observers' = [observers EXCEPT ![o].holds =
                         Some(CASE kind = "state" -> getState(state)
                                [] kind = "profile" -> getProfile
                                [] kind = "settings" -> getSettings)]
    /\ event' = [op |-> "get", notified |-> FALSE, who |-> o, kind |-> kind]
    /\ EngineUntouched

\* what a client writes into an object of the given kind
Scribbled(kind, val) ==
    CASE kind = "state" -> [val EXCEPT !.status = "scribbled",
                                       !.settings = [@ EXCEPT !.pollIntervalMs = 0]]
      [] kind = "profile" -> [val EXCEPT !.cashIrr = 0 - 1]
      [] kind = "settings" -> [val EXCEPT !.pollIntervalMs = 0]

\* o writes into the object it holds: the write lands in the engine when the object
\* is the engine's own, and in o's copy otherwise
Mutate(o) ==
    /\ IsFinite(observers[o].holds)
    /\ LET obj == Val(observers[o].holds)
       IN  IF obj.ref = "engine"
           THEN /\ state' = IF obj.kind = "state" THEN Scribbled("state", state) ELSE state
                /\ profile' = IF obj.kind = "profile" THEN Scribbled("profile", profile)
                              ELSE profile
                /\ settings' = IF obj.kind = "settings" THEN Scribbled("settings", settings)
                               ELSE settings
                /\ UNCHANGED <<now, cli, watcher, history, pendingPredictions, metrics, timer, running,
                               initialized, lastRetentionSweepAt, eventSeq, db, ticks,
                               calls, startPc, lastEmitted, updatesIssued, observers>>
           ELSE /\ observers' = [observers EXCEPT ![o].holds =
                                     Some([obj EXCEPT !.val = Scribbled(obj.kind, obj.val)])]
                /\ EngineUntouched
    /\ event' = [op |-> "mutate", notified |-> FALSE, who |-> o]

-----------------------------------------------------------------------------
(* The engine under every event: failing fetches and writes, updates, shutdown.  *)
(* Manual fetches are explored once the stored history is loaded.                *)

\* the scorer outcomes and ranges explored where the decision is not the subject
NarrowSignals(h) == {sig \in buildSignal(h) : sig.confidence > 0 \/ sig.pUp = 50}
NarrowRanges == {20}
NarrowPrices == {Null, Some(1)}

\* engine.start() is called in the turn that constructs the engine, before any request
\* or signal can arrive
Started == startPc # "new"

\* what the environment has asked of the engine so far is below max
Budget(max) == eventSeq + Len(ticks) + updatesIssued < max

Next ==
    \/ \E d \in Durations : Started /\ Advance(d)
    \/ start
    \/ InitializeFail
    \/ InitializeConfig
    \/ InitializeHistory
    \/ Started /\ stop
    \/ (Busy \/ Budget(MaxEvents)) /\ TimerFire
    \/ initialized /\ (Busy \/ Budget(MaxEvents)) /\ forceTick
    \/ \E i \in 1..Len(ticks) : TickFetchFail(i)
    \/ \E i \in 1..Len(ticks), raw \in NarrowPrices : TickFetchOk(i, raw)
    \/ \E i \in 1..Len(ticks) : TickSnapshotCreateFail(i)
    \/ \E i \in 1..Len(ticks), signal \in NarrowSignals(history), rangePct \in NarrowRanges :
           TickSnapshotCreateOk(i, signal, rangePct)
    \/ \E i \in 1..Len(ticks) : TickSignalCreateFail(i)
    \/ \E i \in 1..Len(ticks) : TickSignalCreateOk(i)
    \/ \E i \in 1..Len(ticks) : TickSweepFail(i)
    \/ \E i \in 1..Len(ticks) : TickSweepOk(i)
    \/ \E patch \in ProfilePatches : Started /\ Budget(MaxEvents) /\ updateProfile(patch)
    \/ \E patch \in SettingsPatches : Started /\ Budget(MaxEvents) /\ updateSettings(patch)
    \/ \E i \in 1..Len(calls) : UpdateResolve(i)
    \/ \E i \in 1..Len(calls) : UpdateReject(i)

Spec == Init /\ [][Next]_vars

-----------------------------------------------------------------------------
(* The engine with a funded profile while every fetch and every write succeeds   *)
(* within the minute and manual fetches come after the start: sequences of       *)
(* decisions over time                                                           *)

NextPolicy ==
    \/ \E d \in PolicyDurations : startPc = "started" /\ ~Busy /\ Advance(d)
    \/ start
    \/ InitializeConfig
    \/ InitializeHistory
    \/ startPc = "started" /\ Budget(MaxPolicyEvents) /\ forceTick
    \/ \E i \in 1..Len(ticks) : TickFetchOk(i, Some(1))
    \/ \E i \in 1..Len(ticks), signal \in NarrowSignals(history), rangePct \in NarrowRanges :
           TickSnapshotCreateOk(i, signal, rangePct)
    \/ \E i \in 1..Len(ticks) : TickSignalCreateOk(i)
    \/ \E i \in 1..Len(ticks) : TickSweepOk(i)

SpecPolicy == InitPolicy /\ [][NextPolicy]_vars

-----------------------------------------------------------------------------
(* One decision after another under every environment, every scorer outcome,     *)
(* every range and every price, at one instant                                   *)

NextDecision ==
    \/ start
    \/ InitializeConfig
    \/ InitializeHistory
    \/ startPc = "started" /\ Budget(MaxDecisionEvents) /\ forceTick
    \/ \E i \in 1..Len(ticks), raw \in RawPrices \ {Null} : TickFetchOk(i, raw)
    \/ \E i \in 1..Len(ticks), signal \in buildSignal(history), rangePct \in RangeValues :
           TickSnapshotCreateOk(i, signal, rangePct)
    \/ \E i \in 1..Len(ticks) : TickSignalCreateOk(i)

SpecDecision == InitDecision /\ [][NextDecision]_vars

-----------------------------------------------------------------------------
(* Configuration: patches inside and outside the ranges, over environments       *)
(* inside and outside the ranges, while every fetch succeeds                     *)

\* POLL_INTERVAL_MS and ACTION_COOLDOWN_MIN outside their ranges
EnvConfigSettings ==
    { DefaultSettings,
      [DefaultSettings EXCEPT !.pollIntervalMs = 5000, !.actionCooldownMin = 500] }

InitConfig == \E s \in EnvConfigSettings : Constructed(s, FundedProfile, <<>>, 1)

NextConfig ==
    \/ start
    \/ InitializeConfig
    \/ InitializeHistory
    \/ startPc = "started" /\ Budget(MaxConfigEvents) /\ forceTick
    \/ \E i \in 1..Len(ticks) : TickFetchOk(i, Some(1))
    \/ \E i \in 1..Len(ticks), signal \in NarrowSignals(history), rangePct \in NarrowRanges :
           TickSnapshotCreateOk(i, signal, rangePct)
    \/ \E i \in 1..Len(ticks) : TickSignalCreateOk(i)
    \/ \E patch \in ConfigProfilePatches :
           startPc = "started" /\ Budget(MaxConfigEvents) /\ updateProfile(patch)
    \/ \E patch \in ConfigSettingsPatches :
           startPc = "started" /\ Budget(MaxConfigEvents) /\ updateSettings(patch)
    \/ \E i \in 1..Len(calls) : UpdateResolve(i)
    \/ \E i \in 1..Len(calls) : UpdateReject(i)

SpecConfig == InitConfig /\ [][NextConfig]_vars

-----------------------------------------------------------------------------
(* The history window: a start over the database of an earlier run that holds    *)
(* more snapshots than the smallest admissible window, updates that narrow the   *)
(* window, ticks that fetch or fail to fetch                                     *)

StoredHistory ==
    [i \in 1..StoredPoints |->
        [t |-> i - StoredPoints - DownMinutes, goldPrice |-> 1000, rawPrice |-> Some(1)]]

HistorySettingsPatches ==
    { [maxInMemoryPoints |-> MinInMemoryPoints],
      [historyRetentionHours |-> MinHistoryRetentionHours] }

InitHistory == Constructed(DefaultSettings, FundedProfile, StoredHistory, 1)

NextHistory ==
    \/ \E d \in Durations : startPc = "started" /\ ~Busy /\ Advance(d)
    \/ start
    \/ InitializeConfig
    \/ InitializeHistory
    \/ startPc = "started" /\ Budget(MaxHistoryEvents) /\ forceTick
    \/ \E i \in 1..Len(ticks) : TickFetchFail(i)
    \/ \E i \in 1..Len(ticks) : TickFetchOk(i, Some(1))
    \/ \E i \in 1..Len(ticks), signal \in NarrowSignals(history), rangePct \in NarrowRanges :
           TickSnapshotCreateOk(i, signal, rangePct)
    \/ \E i \in 1..Len(ticks) : TickSignalCreateOk(i)
    \/ \E i \in 1..Len(ticks) : TickSweepOk(i)
    \/ \E patch \in HistorySettingsPatches :
           startPc = "started" /\ Budget(MaxHistoryEvents) /\ updateSettings(patch)
    \/ \E i \in 1..Len(calls) : UpdateResolve(i)

SpecHistory == InitHistory /\ [][NextHistory]_vars

-----------------------------------------------------------------------------
(* The reliability metrics: PREDICTION_HORIZON_MIN at its minimum, so that        *)
(* predictions come due within the run; prices that rise, fall and stay; ticks   *)
(* that fail at the fetch or at the snapshot write; updates and shutdown         *)

MetricsPrices == {Some(1), Some(2)}

InitMetrics ==
    Constructed([DefaultSettings EXCEPT !.predictionHorizonMin = MinPredictionHorizonMin],
                FundedProfile, <<>>, 1)

NextMetrics ==
    \/ \E d \in PolicyDurations : startPc = "started" /\ ~Busy /\ Advance(d)
    \/ start
    \/ InitializeConfig
    \/ InitializeHistory
    \/ startPc = "started" /\ stop
    \/ startPc = "started" /\ Budget(MaxMetricsEvents) /\ forceTick
    \/ \E i \in 1..Len(ticks) : TickFetchFail(i)
    \/ \E i \in 1..Len(ticks), raw \in MetricsPrices : TickFetchOk(i, raw)
    \/ \E i \in 1..Len(ticks) : TickSnapshotCreateFail(i)
    \/ \E i \in 1..Len(ticks), signal \in NarrowSignals(history), rangePct \in NarrowRanges :
           TickSnapshotCreateOk(i, signal, rangePct)
    \/ \E i \in 1..Len(ticks) : TickSignalCreateOk(i)
    \/ \E i \in 1..Len(ticks) : TickSweepOk(i)
    \/ \E patch \in ProfilePatches :
           startPc = "started" /\ Budget(MaxMetricsEvents) /\ updateProfile(patch)
    \/ \E patch \in SettingsPatches :
           startPc = "started" /\ Budget(MaxMetricsEvents) /\ updateSettings(patch)
    \/ \E i \in 1..Len(calls) : UpdateResolve(i)

SpecMetrics == InitMetrics /\ [][NextMetrics]_vars

-----------------------------------------------------------------------------
(* Startup: the HTTP server listens from the turn that calls engine.start(), so  *)
(* manual fetches arrive while initializeFromDatabase is still waiting for the   *)
(* database, and after it has failed                                             *)

InitStartup ==
    Constructed(DefaultSettings, DefaultProfile, <<StoredSnapshot>>,
                StoredSnapshot.t + MOMENTUM_LOOKBACK_MIN)

NextStartup ==
    \/ start
    \/ InitializeFail
    \/ InitializeConfig
    \/ InitializeHistory
    \/ (Busy \/ Budget(MaxStartupEvents)) /\ TimerFire
    \/ Started /\ (Busy \/ Budget(MaxStartupEvents)) /\ forceTick
    \/ \E i \in 1..Len(ticks) : TickFetchFail(i)
    \/ \E i \in 1..Len(ticks), raw \in NarrowPrices : TickFetchOk(i, raw)
    \/ \E i \in 1..Len(ticks) : TickSnapshotCreateFail(i)
    \/ \E i \in 1..Len(ticks), signal \in NarrowSignals(history), rangePct \in NarrowRanges :
           TickSnapshotCreateOk(i, signal, rangePct)
    \/ \E i \in 1..Len(ticks) : TickSignalCreateFail(i)
    \/ \E i \in 1..Len(ticks) : TickSignalCreateOk(i)
    \/ \E i \in 1..Len(ticks) : TickSweepFail(i)
    \/ \E i \in 1..Len(ticks) : TickSweepOk(i)

SpecStartup == InitStartup /\ [][NextStartup]_vars

-----------------------------------------------------------------------------
(* The engine and its listeners: event streams are opened and closed while ticks  *)
(* end, updates are made one after the other and the engine is stopped.           *)

\* no listener has been handed MaxDeliveries states yet
Quiet == \A o \in Observers : observers[o].received < MaxDeliveries

ObserverProfilePatches == { [goldGrams |-> 2] }
ObserverSettingsPatches == { [pollIntervalMs |-> 60000] }

InitListeners == Constructed(DefaultSettings, DefaultProfile, <<>>, 1)

NextListeners ==
    \/ start
    \/ InitializeFail
    \/ InitializeConfig
    \/ InitializeHistory
    \/ Started /\ Quiet /\ stop
    \/ (Busy \/ Budget(MaxListenerEvents)) /\ TimerFire
    \/ \E i \in 1..Len(ticks) : TickFetchFail(i)
    \/ \E i \in 1..Len(ticks) : TickFetchOk(i, Some(1))
    \/ \E i \in 1..Len(ticks), signal \in NarrowSignals(history), rangePct \in NarrowRanges :
           TickSnapshotCreateOk(i, signal, rangePct)
    \/ \E i \in 1..Len(ticks) : TickSignalCreateOk(i)
    \/ \E patch \in ObserverProfilePatches :
           Started /\ Len(calls) = 0 /\ Budget(MaxListenerEvents) /\ updateProfile(patch)
    \/ \E patch \in ObserverSettingsPatches :
           Started /\ Len(calls) = 0 /\ Budget(MaxListenerEvents) /\ updateSettings(patch)
    \/ \E i \in 1..Len(calls) : UpdateResolve(i)
    \/ \E o \in Observers : Started /\ Quiet /\ subscribe(o)
    \/ \E o \in Observers : unsubscribe(o)

SpecListeners == InitListeners /\ [][NextListeners]_vars

-----------------------------------------------------------------------------
(* The engine and the objects it hands out: one client listens, another calls the *)
(* getters, and both write into what they were handed.                            *)

ObserverKinds == {"state", "profile", "settings"}

InitGetters == Constructed(DefaultSettings, DefaultProfile, <<>>, 1)

NextGetters ==
    \/ start
    \/ InitializeConfig
    \/ InitializeHistory
    \/ Started /\ Quiet /\ stop
    \/ initialized /\ (Busy \/ Budget(MaxGetterEvents)) /\ forceTick
    \/ \E i \in 1..Len(ticks) : TickFetchFail(i)
    \/ \E i \in 1..Len(ticks) : TickFetchOk(i, Some(1))
    \/ \E i \in 1..Len(ticks), signal \in NarrowSignals(history), rangePct \in NarrowRanges :
           TickSnapshotCreateOk(i, signal, rangePct)
    \/ \E i \in 1..Len(ticks) : TickSignalCreateOk(i)
    \/ \E patch \in ObserverProfilePatches :
           Started /\ Len(calls) = 0 /\ Budget(MaxGetterEvents) /\ updateProfile(patch)
    \/ \E patch \in ObserverSettingsPatches :
           Started /\ Len(calls) = 0 /\ Budget(MaxGetterEvents) /\ updateSettings(patch)
    \/ \E i \in 1..Len(calls) : UpdateResolve(i)
    \/ Started /\ Quiet /\ subscribe("a")
    \/ \E kind \in ObserverKinds : Started /\ Get("b", kind)
    \/ \E o \in Observers : Mutate(o)

SpecGetters == InitGetters /\ [][NextGetters]_vars

-----------------------------------------------------------------------------
(* The fields of the snapshots: tgju answers with present, missing, stale and      *)
(* future-dated quotes, the snapshots are saved, and the process is restarted over *)
(* a database that also holds rows of before the unit change.                      *)

\* minutes between the timestamp of a quote and the fetch: dated after the fetch, at
\* the fetch, past the lowest freshness ceiling, at the default ceiling, past it
FieldAges == {0 - 1, 0, MinFreshnessMaxMin + 1, DefaultSettings.freshnessMaxMin,
              DefaultSettings.freshnessMaxMin + 1}

\* the user lowers the freshness ceiling
FieldSettingsPatches == { [freshnessMaxMin |-> MinFreshnessMaxMin] }

\* what tgju answers at one key at time t, the quote and the parsed timestamp: no
\* quote, a quote that is no number, or a quote with no timestamp or with a timestamp
\* of one of the ages
Entries(t) ==
    {[p |-> Null, ts |-> Some(t)], [p |-> Str(<<"n", "/", "a">>), ts |-> Some(t)]}
    \cup [p : {Num(<<"1", "0", "0">>)}, ts : {Null} \cup {Some(t - a) : a \in FieldAges}]

\* what talasea answers as price
FieldPrices == {Num(<<"1">>)}

\* the answers of tgju at time t
Payloads(t) == { [key \in FEATURE_KEYS |-> e] : e \in Entries(t) }

\* a field as stored before the unit change, in rial and without the flag, and one
\* stored after it
LegacyField == [value |-> Some(100), ts |-> Some(1), ageMin |-> Some(0), fresh |-> TRUE,
                unitAdjusted |-> FALSE]
AdjustedField == [value |-> Some(10), ts |-> Some(1), ageMin |-> Some(0), fresh |-> TRUE,
                  unitAdjusted |-> TRUE]

\* the rows an earlier run left: one with the raw price as goldPrice and rial fields,
\* one in the working units
StoredFieldRows ==
    << [t |-> 1, goldPrice |-> 1, rawPrice |-> Some(1),
        fields |-> [key \in FEATURE_KEYS |-> LegacyField]],
       [t |-> 1, goldPrice |-> 1000, rawPrice |-> Some(1),
        fields |-> [key \in FEATURE_KEYS |-> AdjustedField]] >>

InitFields == Constructed(DefaultSettings, DefaultProfile, StoredFieldRows, 2)

\* the database holds fewer than MaxFieldRows snapshots, counting the tick in flight
RoomForRows == Len(db.snapshots) + Len(ticks) < MaxFieldRows

NextFields ==
    \/ start
    \/ InitializeConfig
    \/ InitializeHistory
    \/ RoomForRows /\ restart
    \/ (Busy \/ RoomForRows) /\ TimerFire
    \/ \E i \in 1..Len(ticks), price \in FieldPrices : \E tgju \in Payloads(ticks[i].t) :
           TickFetchFields(i, price, tgju)
    \/ \E i \in 1..Len(ticks), signal \in NarrowSignals(history), rangePct \in NarrowRanges :
           TickSnapshotCreateOk(i, signal, rangePct)
    \/ \E i \in 1..Len(ticks) : TickSignalCreateOk(i)
    \/ \E patch \in FieldSettingsPatches :
           /\ Started /\ Len(calls) = 0
           /\ Merge(settings, patch) # settings
           /\ updateSettings(patch)
    \/ \E i \in 1..Len(calls) : UpdateResolve(i)

SpecFields == InitFields /\ [][NextFields]_vars

-----------------------------------------------------------------------------
(* What the sources answer: prices and quotes that are absent, numbers, texts     *)
(* with and without digits.                                                       *)

\* the price field of the answer of talasea: absent, 1, "1", "0,002", "2 T", "n/a",
\* "", "-", "1-2"
ParsePrices ==
    { Null, Num(<<"1">>), Str(<<"1">>), Str(<<"0", ",", "0", "0", "2">>),
      Str(<<"2", " ", "T">>), Str(<<"n", "/", "a">>), Str(<<>>), Str(<<"-">>),
      Str(<<"1", "-", "2">>) }

\* the quote of tgju at a key: absent, 100, "n/a", "1.2.3"
ParseQuotes == { Null, Num(<<"1", "0", "0">>), Str(<<"n", "/", "a">>),
                 Str(<<"1", ".", "2", ".", "3">>) }

\* the answers of tgju at time t: at every key one of the quotes, with a timestamp
\* that parses to t or with one that does not parse
ParsePayloads(t) ==
    { [key \in FEATURE_KEYS |-> e] : e \in [p : ParseQuotes, ts : {Null, Some(t)}] }

InitParse == Constructed(DefaultSettings, DefaultProfile, <<>>, 1)

NextParse ==
    \/ start
    \/ InitializeConfig
    \/ InitializeHistory
    \/ (Busy \/ Budget(MaxParseEvents)) /\ TimerFire
    \/ \E i \in 1..Len(ticks), price \in ParsePrices : \E tgju \in ParsePayloads(ticks[i].t) :
           TickFetchFields(i, price, tgju)
    \/ \E i \in 1..Len(ticks), signal \in NarrowSignals(history), rangePct \in NarrowRanges :
           TickSnapshotCreateOk(i, signal, rangePct)
    \/ \E i \in 1..Len(ticks) : TickSignalCreateOk(i)

SpecParse == InitParse /\ [][NextParse]_vars

-----------------------------------------------------------------------------
(* Steps of a run, as the properties below name them *)

\* a timer trigger or a forceTick call has just been handled
Triggered == event'.op = "trigger" /\ now' = now

\* a tick has just thrown out of fetchSnapshot: a failed fetch or an unparsable price
FetchFailed == event'.op = "tickFailed" /\ event'.at = "fetch" /\ eventSeq' # eventSeq

\* the compute phase of a tick has just run: its signal, zones and decision are published
Decided == event'.op = "tickComputed" /\ eventSeq' # eventSeq

NewSignal == Val(state'.signal)
NewZones == Val(state'.zones)
NewDecision == state'.decision

\* the time of the deciding tick
TickTime == NewSignal.timestamp

\* the action that reaches the cooldown gate
Tentative == gatedDecision(NewSignal, NewZones, profile, settings).action

\* the gates of the decision policy, as the specification words them
LowConfidence == NewSignal.confidence < settings.minConfidence
WantsBuy == NewSignal.pUp >= settings.buyThreshold
WantsSell == ~WantsBuy /\ NewSignal.pUp <= settings.sellThreshold
CashShort == profile.cashIrr * 1000 < NewSignal.price * (1000 + profile.buyFeePct)
NoGold == profile.goldGrams <= 0
BuyEdgeFails == IsFinite(NewDecision.buyEdgePct) /\ Val(NewDecision.buyEdgePct) <= 0
SellEdgeFails == IsFinite(NewDecision.sellEdgePct) /\ Val(NewDecision.sellEdgePct) <= 0

\* the reason of the first failing gate among confidence, threshold, inventory, edge
FirstFailingGate ==
    IF LowConfidence THEN "confidence below threshold"
    ELSE IF ~WantsBuy /\ ~WantsSell THEN "inside neutral zone"
    ELSE IF WantsBuy /\ CashShort THEN "not enough cash for 1g including fee"
    ELSE IF WantsSell /\ NoGold THEN "no gold holdings to sell"
    ELSE IF WantsBuy /\ BuyEdgeFails THEN "BUY edge does not clear fees"
    ELSE IF WantsSell /\ SellEdgeFails THEN "SELL edge does not clear fees"
    ELSE "none"

-----------------------------------------------------------------------------
(* Properties *)

\* C1.  At most one tick is in flight.  A trigger (timer or forceTick alike) that
\* arrives while a tick is suspended is skipped: it starts nothing and changes
\* nothing; a trigger that finds the engine idle starts the tick; and a tick starts
\* only in the handling of a trigger (or of start()) that found the engine idle, so
\* none runs later on behalf of a skipped trigger.
C1_AtMostOneTick ==
    [][ /\ Len(ticks') <= 1
        /\ (Triggered /\ running) =>
               /\ ~event'.ran
               /\ UNCHANGED <<ticks, running, state, history, pendingPredictions,
                              metrics, db, timer, eventSeq>>
        /\ (Triggered /\ ~running) => (event'.ran /\ Len(ticks') = Len(ticks) + 1)
        /\ (Len(ticks') > Len(ticks)) =>
               (~running /\ event'.op \in {"trigger", "initDone"})
      ]_vars

\* a forceTick call skipped while a tick is suspended at its snapshot write
C1_SkippedWhileInFlight ==
    /\ event.op = "trigger" /\ event.by = "force" /\ ~event.ran
    /\ Len(ticks) = 1 /\ ticks[1].pc = "snapshotCreate"

\* C2.  Cooldown gate: a tentative BUY or SELL that differs from the last emitted
\* non-HOLD action, less than actionCooldownMin after that action, is decided HOLD
\* with the cooldown reason and the remaining minutes, also when HOLD decisions were
\* emitted in between.
C2_CooldownGate ==
    [][ ( /\ Decided
          /\ Tentative # "HOLD"
          /\ lastEmitted.action # "HOLD"
          /\ Tentative # lastEmitted.action
          /\ TickTime - lastEmitted.at < settings.actionCooldownMin )
        => /\ NewDecision.action = "HOLD"
           /\ NewDecision.reason = "cooldown active"
           /\ NewDecision.cooldownLeft =
                  settings.actionCooldownMin - (TickTime - lastEmitted.at)
      ]_vars

\* C3.  Repeating the action of the previous tick is not gated by the cooldown: a
\* tentative action equal to the action the previous tick emitted is the decision.
C3_RepeatNotGated ==
    [][ ( /\ Decided
          /\ state.decision.action # "HOLD"
          /\ Tentative = state.decision.action )
        => NewDecision.action = Tentative
      ]_vars

\* C4.  The cooldown is measured from the last emitted non-HOLD action: once
\* actionCooldownMin has elapsed since it, a tentative action is the decision; and
\* with actionCooldownMin = 0 no decision carries the cooldown reason.
C4_CooldownElapsed ==
    [][ Decided =>
          /\ ( /\ Tentative # "HOLD"
               /\ lastEmitted.action # "HOLD"
               /\ TickTime - lastEmitted.at >= settings.actionCooldownMin )
             => NewDecision.action = Tentative
          /\ settings.actionCooldownMin = 0 => NewDecision.reason # "cooldown active"
      ]_vars

\* C5.  Gate precedence: the reason of a decision is that of the first failing gate
\* in the order confidence, threshold, inventory, edge, and the cooldown reason is
\* reported only when those four gates passed.
C5_GatePrecedence ==
    [][ Decided =>
          /\ FirstFailingGate # "none" =>
                 (NewDecision.action = "HOLD" /\ NewDecision.reason = FirstFailingGate)
          /\ NewDecision.reason = "cooldown active" => FirstFailingGate = "none"
      ]_vars

\* a tentative BUY that fails the cash check and the edge check reports the cash
C5_CashBeforeEdge ==
    /\ event.op = "tickComputed"
    /\ Val(state.signal).confidence >= settings.minConfidence
    /\ Val(state.signal).pUp >= settings.buyThreshold
    /\ IsFinite(state.decision.buyEdgePct) /\ Val(state.decision.buyEdgePct) <= 0
    /\ state.decision.reason = "not enough cash for 1g including fee"

\* C6.  Confidence gate: a signal below minConfidence is decided HOLD; every BUY has
\* confidence >= minConfidence and pUp >= buyThreshold, every SELL has
\* confidence >= minConfidence and pUp <= sellThreshold; and a signal that passes the
\* confidence gate with pUp strictly between the thresholds is decided HOLD with the
\* neutral-zone reason.
C6_ConfidenceGate ==
    [][ Decided =>
          /\ LowConfidence => NewDecision.action = "HOLD"
          /\ NewDecision.action = "BUY" =>
                 (NewSignal.confidence >= settings.minConfidence
                  /\ NewSignal.pUp >= settings.buyThreshold)
          /\ NewDecision.action = "SELL" =>
                 (NewSignal.confidence >= settings.minConfidence
                  /\ NewSignal.pUp <= settings.sellThreshold)
          /\ ( /\ ~LowConfidence
               /\ NewSignal.pUp > settings.sellThreshold
               /\ NewSignal.pUp < settings.buyThreshold )
             => (NewDecision.action = "HOLD" /\ NewDecision.reason = "inside neutral zone")
      ]_vars

\* a signal over the buy threshold held back by its confidence
C6_HeldByConfidence ==
    /\ event.op = "tickComputed"
    /\ Val(state.signal).pUp >= settings.buyThreshold
    /\ Val(state.signal).confidence < settings.minConfidence
    /\ state.decision.action = "HOLD"
    /\ state.decision.reason = "confidence below threshold"

\* C7.  Inventory gate: every BUY has cash >= price x (1 + buyFeePct), every SELL has
\* goldGrams > 0; a confident signal over the buy threshold with less cash is decided
\* HOLD with the cash reason, and a confident signal under the sell threshold with no
\* gold is decided HOLD with the no-holdings reason.
C7_InventoryGate ==
    [][ Decided =>
          /\ NewDecision.action = "BUY" => ~CashShort
          /\ NewDecision.action = "SELL" => profile.goldGrams > 0
          /\ (~LowConfidence /\ WantsBuy /\ CashShort) =>
                 /\ NewDecision.action = "HOLD"
                 /\ NewDecision.reason = "not enough cash for 1g including fee"
          /\ (~LowConfidence /\ WantsSell /\ profile.goldGrams = 0) =>
                 /\ NewDecision.action = "HOLD"
                 /\ NewDecision.reason = "no gold holdings to sell"
      ]_vars

\* a confident signal over the buy threshold with no cash
C7_NoCash ==
    /\ event.op = "tickComputed"
    /\ Val(state.signal).confidence >= settings.minConfidence
    /\ Val(state.signal).pUp >= settings.buyThreshold
    /\ profile.cashIrr = 0
    /\ Val(state.signal).price > 0
    /\ state.decision.action = "HOLD"
    /\ state.decision.reason = "not enough cash for 1g including fee"

\* C8.  Fee-aware edge gate: every BUY has buyEdgePct > 0 and every SELL has
\* sellEdgePct > 0, the edges being those of the formulas of the gate; a tentative
\* action whose edge is not positive is decided HOLD.
C8_EdgeGate ==
    [][ Decided =>
          /\ NewDecision.buyEdgePct = buyEdgePct(NewSignal, NewZones, profile)
          /\ NewDecision.sellEdgePct = sellEdgePct(NewSignal, NewZones, profile)
          /\ NewDecision.action = "BUY" =>
                 (IsFinite(NewDecision.buyEdgePct) /\ Val(NewDecision.buyEdgePct) > 0)
          /\ NewDecision.action = "SELL" =>
                 (IsFinite(NewDecision.sellEdgePct) /\ Val(NewDecision.sellEdgePct) > 0)
      ]_vars

\* C9.  A tick that fails in fetchSnapshot commits nothing: neither its start nor its
\* failure changes the history, the pending predictions, the metrics, the profile,
\* the settings, the published signal, zones and decision, or the database.
C9_FailedFetchCommitsNothing ==
    [][ (FetchFailed \/ (Triggered /\ event'.ran)) =>
          /\ UNCHANGED <<history, pendingPredictions, metrics, profile, settings, db>>
          /\ state'.signal = state.signal
          /\ state'.zones = state.zones
          /\ state'.decision = state.decision
          /\ state'.metrics = state.metrics
      ]_vars

\* a tick has failed in fetchSnapshot after an earlier tick published a signal
C9_FailedAfterSignal ==
    /\ event.op = "tickFailed" /\ event.at = "fetch"
    /\ IsFinite(state.signal)
    /\ Len(history) >= 1
    /\ Len(db.snapshots) >= 1

\* C10.  updateProfile and updateSettings never partially apply: after a call that
\* failed, the value in memory, the published value and the timer are as before the
\* call; after a call that succeeded, the value in memory, the published value and
\* the returned object are the sanitized merge the call computed.
C10_UpdateAllOrNothing ==
    [][ /\ (event'.op = "updateFailed" /\ calls' # calls) =>
               /\ timer' = event'.call.timer
               /\ IF event'.kind = "profile"
                  THEN /\ profile' = event'.call.before
                       /\ state'.profile = event'.call.published
                  ELSE /\ settings' = event'.call.before
                       /\ state'.settings = event'.call.published
        /\ (event'.op = "updateInvalid" /\ updatesIssued' # updatesIssued) =>
               (UNCHANGED <<settings, profile, timer>>
                /\ state'.settings = state.settings /\ state'.profile = state.profile)
        /\ (event'.op = "updateDone" /\ calls' # calls) =>
               /\ event'.returned = event'.call.data
               /\ IF event'.kind = "profile"
                  THEN profile' = event'.call.data /\ state'.profile = event'.call.data
                  ELSE settings' = event'.call.data /\ state'.settings = event'.call.data
      ]_vars

\* C11: a call of updateSettings whose patch leaves buyThreshold not above
\* sellThreshold throws in sanitizeSettings before anything is written: the settings,
\* the published state (state.settings with it), the timer and the settings row are
\* as before, no upsert is issued and publish() is not called.
C11_InvalidThresholdsRejected ==
    [][ ( /\ updatesIssued' # updatesIssued
          /\ event'.kind = "settings"
          /\ Le(Merge(settings, event'.patch).buyThreshold,
                Merge(settings, event'.patch).sellThreshold) )
        => /\ event'.op = "updateInvalid"
           /\ ~event'.notified
           /\ UNCHANGED <<settings, state, timer, db, calls>> ]_vars

\* a patch with equal thresholds has been rejected while the timer is armed
C11_RejectedWhileArmed ==
    /\ event.op = "updateInvalid"
    /\ Merge(settings, event.patch).buyThreshold = Merge(settings, event.patch).sellThreshold
    /\ IsFinite(timer)
    /\ state.settings = settings

\* the allowed range of a field of the settings or of the profile
FieldInRange(kind, k, v) ==
    IF kind = "profile"
    THEN IF k \in {"buyFeePct", "sellFeePct"}
         THEN Ge(v, 0) /\ Le(v, MaxFeePerMille)
         ELSE Ge(v, 0)
    ELSE CASE k = "pollIntervalMs" -> Ge(v, MinPollIntervalMs) /\ Le(v, MaxPollIntervalMs)
           [] k = "predictionHorizonMin" ->
                  Ge(v, MinPredictionHorizonMin) /\ Le(v, MaxPredictionHorizonMin)
           [] k \in {"buyThreshold", "sellThreshold"} ->
                  Ge(v, MinThreshold) /\ Le(v, MaxThreshold)
           [] k = "minConfidence" -> Ge(v, 0) /\ Le(v, MaxConfidencePct)
           [] k = "actionCooldownMin" -> Ge(v, 0) /\ Le(v, MaxActionCooldownMin)
           [] k = "historyRetentionHours" ->
                  Ge(v, MinHistoryRetentionHours) /\ Le(v, MaxHistoryRetentionHours)
           [] k = "maxInMemoryPoints" -> Ge(v, MinInMemoryPoints) /\ Le(v, MaxInMemoryPoints)
           [] k = "freshnessMaxMin" -> Ge(v, MinFreshnessMaxMin) /\ Le(v, MaxFreshnessMaxMin)

AllInRange(kind, rec) == \A k \in DOMAIN rec : FieldInRange(kind, k, rec[k])

\* C12: an updateProfile or updateSettings call whose patch has a field outside its
\* allowed range is rejected with a validation error, and the settings and the profile
\* of the engine are as before the call.
C12_OutOfRangeRejected ==
    [][ (updatesIssued' # updatesIssued /\ ~AllInRange(event'.kind, event'.patch))
        => /\ event'.op = "updateInvalid"
           /\ UNCHANGED <<settings, profile>> ]_vars

\* C13: whenever a tick of the initialized engine computes a decision, buyThreshold is
\* above sellThreshold and every numeric setting is inside its allowed range, whatever
\* updateSettings calls were made before, accepted or rejected.
C13_ThresholdInvariant ==
    [][ (Decided /\ initialized)
        => /\ Gt(settings.buyThreshold, settings.sellThreshold)
           /\ AllInRange("settings", settings) ]_vars

\* a tick has just appended its snapshot to the history and trimmed it
Appended == event'.op = "tickFetched" /\ history' # history

\* C14: at the end of the append step of a tick that fetched, after history.push and
\* trimHistory(snapshot.t), the history holds at most maxInMemoryPoints snapshots and
\* its oldest snapshot is not older than snapshot.t - historyRetentionHours.
C14_TrimAfterAppend ==
    [][ Appended =>
            LET nowMs == history'[Len(history')].t
            IN  /\ Len(history') <= settings.maxInMemoryPoints
                /\ history'[1].t >=
                       nowMs - settings.historyRetentionHours * MinutesPerHour ]_vars

\* an append has filled the window: trimHistory cut the history down to a lowered
\* maxInMemoryPoints
C14_WindowFull ==
    /\ event.op = "tickFetched"
    /\ Len(history) = settings.maxInMemoryPoints
    /\ settings.maxInMemoryPoints < DefaultSettings.maxInMemoryPoints

\* C15: in every reachable state the history holds at most settings.maxInMemoryPoints
\* snapshots: after the load at startup, after failed ticks, and right after an
\* updateSettings call that lowers maxInMemoryPoints or historyRetentionHours.
C15_WindowBound == Len(history) <= settings.maxInMemoryPoints

\* the predictions made so far that are counted or pending
Accounted == metrics.total + Len(pendingPredictions)

\* C16: the compute phase of a tick creates exactly one pending prediction, with the
\* timestamp, the price and the pUp of that tick, and no other step creates one; a
\* prediction leaves the pending list only in a compute phase and only by being
\* counted in metrics.total, once.  Hence metrics.total + |pendingPredictions| grows
\* by one with every compute phase and not otherwise: it is the number of predictions
\* created since the process started.
C16_PredictionConservation ==
    [][ /\ Decided =>
               LET n == Len(pendingPredictions')
               IN  /\ Accounted' = Accounted + 1
                   /\ pendingPredictions'[n] =
                          [t |-> TickTime, basePrice |-> NewSignal.price, pUp |-> NewSignal.pUp]
                   /\ metrics'.total - metrics.total = Len(pendingPredictions) - (n - 1)
                   /\ \A j \in 1..(n - 1) :
                          \E i \in 1..Len(pendingPredictions) :
                              pendingPredictions[i] = pendingPredictions'[j]
        /\ ~Decided => UNCHANGED <<pendingPredictions, metrics>> ]_vars

\* one prediction has been counted while two later ones are pending
C16_CountedAndPending ==
    /\ metrics.total = 1
    /\ Len(pendingPredictions) = 2
    /\ event.op = "tickComputed"

\* the snapshots of the history at or after the horizon of prediction pred, and the
\* earliest of them
DueAt(pred) ==
    {j \in 1..Len(history) : history[j].t >= pred.t + settings.predictionHorizonMin}

Realized(pred) ==
    LET first == CHOOSE j \in DueAt(pred) :
                     \A k \in DueAt(pred) :
                         \/ history[j].t < history[k].t
                         \/ (history[j].t = history[k].t /\ j <= k)
    IN  history[first].goldPrice

\* what the resolution rule adds to the metrics for the predictions preds, the Brier
\* term in ten-thousandths
RECURSIVE Outcome(_)
Outcome(preds) ==
    IF preds = <<>> THEN [total |-> 0, correct |-> 0, brierSum |-> 0]
    ELSE LET pred == Head(preds)
             rest == Outcome(Tail(preds))
         IN  IF DueAt(pred) = {} THEN rest
             ELSE LET up == Realized(pred) > pred.basePrice
                      p == clamp(pred.pUp, 0, 100)
                      actualUp == IF up THEN 100 ELSE 0
                  IN  [ total |-> rest.total + 1,
                        correct |-> rest.correct
                                    + (IF (pred.pUp >= 50) = up THEN 1 ELSE 0),
                        brierSum |-> rest.brierSum + (p - actualUp) * (p - actualUp) ]

\* C17: a pending prediction (t, basePrice, pUp) is resolved against the gold price of
\* the earliest snapshot of the history with timestamp >= t + horizon: total grows by
\* 1, correct grows by 1 exactly when (pUp >= 0.5) = (realized > basePrice), and
\* brierSum grows by (clamp(pUp, 0, 1) - actualUp)^2 with actualUp = 1 iff
\* realized > basePrice; a realized price equal to basePrice is not up.
C17_ResolutionRule ==
    [][ Decided =>
            LET add == Outcome(pendingPredictions)
            IN  metrics' = [ total |-> metrics.total + add.total,
                             correct |-> metrics.correct + add.correct,
                             brierSum |-> metrics.brierSum + add.brierSum ] ]_vars

\* two predictions have been counted, a pUp of 0.5 and one 0.2 away from it, and both
\* were right: 0.25 + 0.09 on brierSum
C17_TwoCorrect == metrics = [total |-> 2, correct |-> 2, brierSum |-> 3400]

\* no snapshot of the history is at or after the horizon of prediction pred
NotDue(pred) == DueAt(pred) = {}

\* C18: a pending prediction made at t stays pending over every step, of successful
\* and of failed ticks alike, while the history holds no snapshot with timestamp
\* >= t + horizon; the prediction a tick creates is still pending when that tick ends
\* its compute phase; and the first reliability update that runs once such a snapshot
\* is in the history resolves it.  So after a compute phase the pending list is the
\* predictions that were not due, in their order, followed by the new one, and no
\* other step changes the list: nothing expires or is dropped.
C18_ResolutionTiming ==
    [][ /\ Decided =>
               LET n == Len(pendingPredictions')
               IN  /\ n >= 1
                   /\ pendingPredictions'[n].t = TickTime
                   /\ SubSeq(pendingPredictions', 1, n - 1) =
                          SelectSeq(pendingPredictions, NotDue)
        /\ ~Decided => UNCHANGED pendingPredictions ]_vars

\* after one prediction came due and was counted, the next one has stayed pending
\* across a tick that failed
C18_PendingAcrossFailure ==
    /\ event.op = "tickFailed"
    /\ metrics.total = 1
    /\ Len(pendingPredictions) = 1
    /\ NotDue(pendingPredictions[1])

\* C19: over every step (ticks that succeed or fail, skipped triggers, forceTick,
\* updateProfile, updateSettings, start, stop) total, correct and brierSum do not
\* decrease; 0 <= correct <= total and 0 <= brierSum <= total (brierSum in
\* ten-thousandths); and only the reliability update in the compute phase of a tick
\* changes them.
C19_MetricsMonotone ==
    [][ /\ metrics'.total >= metrics.total
        /\ metrics'.correct >= metrics.correct
        /\ metrics'.brierSum >= metrics.brierSum
        /\ 0 <= metrics'.correct /\ metrics'.correct <= metrics'.total
        /\ 0 <= metrics'.brierSum /\ metrics'.brierSum <= 100 * 100 * metrics'.total
        /\ metrics' # metrics => Decided ]_vars

\* the engine has been stopped after two predictions were counted, one of them right
C19_StoppedWithMetrics ==
    /\ event.op = "stop"
    /\ metrics.total = 2
    /\ metrics.correct = 1
    /\ metrics.brierSum > 0

\* C20: no step of a tick writes the profile, whatever the decision it emits: cash,
\* gold, average buy price and both fees are after the step what they were before
\* it.  The profile changes only in updateProfile and in the load at startup.
C20_TickLeavesProfile ==
    [][ /\ Decided => profile' = profile
        /\ profile' # profile =>
               \/ (updatesIssued' # updatesIssued /\ event'.kind = "profile")
               \/ event'.op = "initConfig" ]_vars

\* a tick has emitted BUY and the cash and the gold of the profile are those the
\* engine was started with
C20_BuyEmitted ==
    /\ event.op = "tickComputed"
    /\ state.decision.action = "BUY"
    /\ profile = FundedProfile


\* C21: once the engine is started at most one timer is armed and its interval is the
\* current settings.pollIntervalMs; an updateSettings call that changes pollIntervalMs
\* replaces the timer by one with the new interval, and one that does not change it
\* leaves the timer as it is.
C21_TimerFollowsSettings ==
    [][ /\ IsFinite(timer') => Val(timer') = settings'.pollIntervalMs
        /\ (event'.op = "updateDone" /\ event'.kind = "settings" /\ calls' # calls) =>
               IF event'.call.data.pollIntervalMs # event'.call.before.pollIntervalMs
               THEN IsFinite(timer) => timer' = Some(event'.call.data.pollIntervalMs)
               ELSE timer' = timer ]_vars


\* a tick has just ended, by returning or by throwing
TickEnded == event'.op \in {"tickDone", "tickFailed"} /\ Len(ticks') < Len(ticks)

\* C22: when a tick ends, with success or with any error, the re-entrancy guard is
\* released and an armed timer stays armed; the next trigger, by the timer or by
\* forceTick, that arrives with no tick in flight starts a tick and is not skipped.
C22_FailedTickKeepsLoop ==
    [][ /\ TickEnded => /\ ~running'
                        /\ IsFinite(timer) => timer' = timer
        /\ (Triggered /\ Len(ticks) = 0) => (event'.ran /\ Len(ticks') = 1) ]_vars

\* the timer has started a tick after a tick that failed
C22_TimerAfterFailure ==
    /\ event.op = "trigger" /\ event.by = "timer" /\ event.ran
    /\ IsFinite(state.lastError)
    /\ Len(state.errors) >= 1


\* C23: a tick that fails sets status to "error", sets lastError to the line of the
\* failure and appends that line to the error log; the next tick that succeeds sets
\* status to "running" and lastError to null while the error log keeps its lines; and
\* in every state status = "error" exactly when lastError is non-null.
C23_ErrorRecording ==
    [][ /\ (TickEnded /\ event'.op = "tickFailed") =>
               /\ state'.status = "error"
               /\ IsFinite(state'.lastError)
               /\ Len(state'.errors) >= 1
               /\ state'.errors[Len(state'.errors)] = Val(state'.lastError)
        /\ (TickEnded /\ event'.op = "tickDone") =>
               /\ state'.status = "running"
               /\ state'.lastError = Null
               /\ state'.errors = state.errors
        /\ (state'.status = "error") <=> IsFinite(state'.lastError) ]_vars


\* C24: a trigger, by the timer or by forceTick, that arrives while a tick is in flight
\* is logged as a skip: it adds one line to the informational log, adds nothing to
\* the error log and sets neither lastError nor the error status.
C24_SkipIsLogged ==
    [][ (Triggered /\ running) =>
            /\ Len(state'.logs) = Len(state.logs) + 1
            /\ state'.errors = state.errors
            /\ state'.lastError = state.lastError
            /\ state'.status = state.status ]_vars


\* C25: no tick runs unless initializeFromDatabase has completed: a trigger starts a
\* tick, a tick appends a snapshot and a tick emits a decision only in the
\* initialized engine; when the initialization fails no timer is armed; and the load
\* of the stored history discards no snapshot a tick has appended.
C25_StartupAbort ==
    [][ /\ (Triggered /\ event'.ran) => initialized
        /\ Appended => initialized
        /\ Decided => initialized
        /\ startPc' = "failed" => timer' = Null
        /\ event'.op = "initDone" =>
               \A i \in 1..Len(history) :
                   \E j \in 1..Len(history') : history'[j] = history[i] ]_vars


\* C26: no two mutators of the engine run concurrently: the settings and the profile
\* do not change, and no update call completes, while a tick is in flight, so a tick
\* sees one value of each from its start to its end; and no update call is made
\* while another one is waiting for its write.
C26_MutatorsExclusive ==
    [][ /\ (settings' # settings \/ profile' # profile) => ~running
        /\ (event'.op = "updateDone" /\ calls' # calls) => ~running
        /\ Len(calls') <= 1 ]_vars


\* the publish() calls the operations completed by a step make: the end of a tick, the
\* completion of start(), the completion of an update, stop()
Completions ==
    (IF TickEnded THEN 1 ELSE 0)
    + (IF startPc' = "started" /\ startPc # "started" THEN 1 ELSE 0)
    + (IF event'.op = "updateDone" THEN 1 ELSE 0)
    + (IF event'.op = "stop" THEN 1 ELSE 0)

\* C27: subscribe hands the current state to the new listener at once; every step
\* hands the resulting state to each listener subscribed before it once per operation
\* the step completes (a tick ending with success or error, start, an update, stop)
\* and hands it nothing when the step completes none; a listener that is not
\* subscribed is handed nothing.
C27_ListenersNotified ==
    [][ \A o \in Observers :
          IF event'.op = "subscribe" /\ event'.who = o
          THEN /\ observers'[o].subscribed
               /\ observers'[o].received = observers[o].received + 1
               /\ observers'[o].holds = Some(getState(state))
               /\ state' = state
          ELSE IF observers[o].subscribed
          THEN /\ observers'[o].received = observers[o].received + Completions
               /\ Completions > 0 => observers'[o].holds = Some(getState(state'))
               /\ Completions = 0 => observers'[o].holds = observers[o].holds
          ELSE /\ observers'[o].received = observers[o].received
               /\ observers'[o].holds = observers[o].holds
      ]_vars

\* a failed tick has been delivered to a listener that had already received states,
\* while the other listener, once subscribed, has closed its stream
C27_DeliveredAfterUnsubscribe ==
    /\ event.op = "tickFailed"
    /\ observers["a"].subscribed /\ observers["a"].received >= 2
    /\ ~observers["b"].subscribed /\ observers["b"].received = 1
    /\ Val(observers["a"].holds).val.status = "error"
    /\ Val(observers["b"].holds).val.status # "error"


\* a client writes into the object it holds
Mutated == event'.op = "mutate"

FreshRule(x, key, s) ==
    LET f == x.fields[key]
    IN  /\ f.ageMin = (IF IsFinite(f.ts) THEN Some(x.t - Val(f.ts)) ELSE Null)
        /\ f.fresh <=> ( /\ IsFinite(f.value)
                         /\ IsFinite(f.ts)
                         /\ x.t - Val(f.ts) >= 0
                         /\ x.t - Val(f.ts) <= s.freshnessMaxMin )

\* some field of snapshot x is dated after the snapshot
FutureDated(x) == \E key \in FEATURE_KEYS : IsFinite(x.fields[key].ts) /\ Val(x.fields[key].ts) > x.t

\* C29: every field of a snapshot, fetched or loaded, is built fresh exactly when it
\* has a value and a timestamp and its age, the snapshot time minus the timestamp, is
\* between 0 and the freshnessMaxMin of that moment; a fetch that finds a field dated
\* after the snapshot goes on to the snapshot write; getFieldValue gives null for a
\* field that is not fresh and the count of fresh fields leaves it out.
C29_Freshness ==
    [][ /\ Appended =>
               \A key \in FEATURE_KEYS : FreshRule(history'[Len(history')], key, settings)
        /\ event'.op = "initDone" =>
               \A i \in 1..Len(history') : \A key \in FEATURE_KEYS :
                   FreshRule(history'[i], key, settings)
        /\ \A i \in 1..Len(history') : \A key \in FEATURE_KEYS :
               /\ ~history'[i].fields[key].fresh => getFieldValue(history'[i], key) = Null
               /\ history'[i].fields[key].fresh =>
                      getFieldValue(history'[i], key) = history'[i].fields[key].value
        /\ \A i \in 1..Len(history') :
               freshFields(history'[i]) =
                   Cardinality({key \in FEATURE_KEYS : history'[i].fields[key].fresh})
        /\ (Appended /\ FutureDated(history'[Len(history')])) =>
               /\ event'.op = "tickFetched"
               /\ Len(ticks') = Len(ticks)
               /\ \E i \in 1..Len(ticks') : ticks'[i].pc = "snapshotCreate"
      ]_vars

\* a fetch has just appended a snapshot whose quotes are dated a minute after it: they
\* have a value and are not fresh, and the tick is at its snapshot write
C29_FutureDatedFetched ==
    /\ event.op = "tickFetched"
    /\ Len(history) >= 1
    /\ Len(ticks) = 1 /\ ticks[1].pc = "snapshotCreate"
    /\ \A key \in FEATURE_KEYS :
           /\ IsFinite(history[Len(history)].fields[key].value)
           /\ history[Len(history)].fields[key].ageMin = Some(0 - 1)
           /\ ~history[Len(history)].fields[key].fresh


\* snapshots x and y have the same gold price and the same field values
SameValues(x, y) ==
    /\ x.goldPrice = y.goldPrice
    /\ \A key \in FEATURE_KEYS : x.fields[key].value = y.fields[key].value

\* the value normalizeSnapshot gives the stored field v at key: as stored when v has
\* the flag or the key is not quoted in rial, converted once otherwise
ConvertedOnce(key, v) ==
    IF ~IsFinite(v.value) THEN Null
    ELSE IF v.unitAdjusted \/ key \notin TGJU_RIAL_TO_TOMAN_KEYS THEN v.value
    ELSE Some(Val(v.value) \div RIAL_TO_TOMAN_DIVISOR)

\* C30: normalizing a normalized snapshot gives the same gold price and field values,
\* for every row written to the database and for every snapshot that enters the
\* history by a fetch or by a load; a load gives a stored field with the flag its
\* stored value and converts a field without the flag once; and every snapshot that
\* enters the history, in any run of the process, has its raw price scaled once.
C30_NormalizeIdempotent ==
    [][ /\ Len(db'.snapshots) > Len(db.snapshots) =>
               LET once == normalizeSnapshot(db'.snapshots[Len(db'.snapshots)])
               IN  SameValues(normalizeSnapshot(once), once)
        /\ Appended =>
               LET x == history'[Len(history')]
               IN  /\ SameValues(normalizeSnapshot(x), x)
                   /\ x.goldPrice = Val(x.rawPrice) * TALASEA_TO_TOMAN_MULTIPLIER
                   /\ \A key \in FEATURE_KEYS : x.fields[key].unitAdjusted
        /\ event'.op = "initDone" =>
               /\ Len(history') = Len(db.snapshots)
               /\ \A i \in 1..Len(history') :
                      LET x == history'[i]
                      IN  /\ SameValues(normalizeSnapshot(x), x)
                          /\ x.goldPrice = Val(x.rawPrice) * TALASEA_TO_TOMAN_MULTIPLIER
                          /\ \A key \in FEATURE_KEYS :
                                 /\ x.fields[key].unitAdjusted
                                 /\ x.fields[key].value =
                                        ConvertedOnce(key, db.snapshots[i].fields[key])
      ]_vars

\* the process has been restarted and has loaded a row of before the unit change and a
\* row a tick of the earlier run saved: both have the price in toman and the rial
\* quote converted once, and the rows in the database are as they were written
C30_ReloadedAfterRestart ==
    /\ event.op = "initDone"
    /\ Len(history) = 3 /\ Len(db.snapshots) = 3
    /\ db.snapshots[1].goldPrice = 1
    /\ db.snapshots[1].fields["price_dollar_rl"] = LegacyField
    /\ history[1].goldPrice = 1000
    /\ history[1].fields["price_dollar_rl"].value = Some(10)
    /\ db.snapshots[3].fields["price_dollar_rl"].unitAdjusted
    /\ db.snapshots[3].fields["price_dollar_rl"].value = Some(10)
    /\ history[3].goldPrice = 1000
    /\ history[3].fields["price_dollar_rl"].value = Some(10)


-----------------------------------------------------------------------------
\* price.js, the console advisor.  It keeps its own history and reads its configuration
\* from the environment; nothing sanitises historyRetentionHours and maxInMemoryPoints.

MaxCliCycles == 2

cliMAX_LOG_LINES == 12

\* CONFIG as envNumber / envInt read it: any finite number the environment gives
CliConfigs ==
    [ historyRetentionHours : {-1, 720},
      maxInMemoryPoints : {0, 1, 50000},
      freshnessMaxMin : {180} ]

\* String(v) of a JSON value; an absent property reads "undefined"
JsString(v) == IF v = Null THEN <<"u", "n", "d", "e", "f", "i", "n", "e", "d">> ELSE v.text

\* parseNumber(talaseaData?.price + "000")
cliGoldPrice(price) == parseNumber(Str(JsString(price) \o <<"0", "0", "0">>))

\* the field price.js fetchSnapshot builds at time t from the entry of tgju
cliFetchField(entry, t, config) ==
    LET value == parseNumber(entry.p)
        ageMin == IF IsFinite(entry.ts) /\ Val(entry.ts) <= t
                  THEN Some(t - Val(entry.ts)) ELSE Null
    IN  [ value |-> value, ts |-> entry.ts, ageMin |-> ageMin,
          fresh |-> /\ IsFinite(value)
                    /\ IsFinite(ageMin)
                    /\ Val(ageMin) >= 0
                    /\ Val(ageMin) <= config.freshnessMaxMin ]

cliAddError(c, msg) == [c EXCEPT !.errors = pushBounded(c.errors, msg, cliMAX_LOG_LINES)]

CliAlone ==
    UNCHANGED <<now, watcher, observers, updatesIssued, settings, profile, history,
                pendingPredictions, metrics, timer, running, initialized,
                lastRetentionSweepAt, eventSeq, state, db, ticks, calls, startPc,
                lastEmitted>>

\* the head of runTickSafely and of tick(), up to the await of fetchSnapshot
cliRunTickSafely(c) ==
    IF c.running
    THEN cliAddError(c, "Skipped one cycle because previous cycle is still running")
    ELSE [c EXCEPT !.running = TRUE, !.started = now]

\* main(): CONFIG is what the environment gave, then the first runTickSafely
cliMain(config) ==
    /\ cli.pc = "load"
    /\ cli' = cliRunTickSafely([cli EXCEPT !.pc = "run", !.config = config, !.cycles = 1])
    /\ event' = [op |-> "cliMain"]
    /\ CliAlone

\* the interval timer of main() calls runTickSafely
cliInterval ==
    /\ cli.pc = "run"
    /\ cli.cycles < MaxCliCycles
    /\ cli' = cliRunTickSafely([cli EXCEPT !.cycles = @ + 1])
    /\ event' = [op |-> "cliInterval"]
    /\ CliAlone

\* a fetch of fetchSnapshot rejects: the catch and the finally of runTickSafely
cliFetchFail ==
    /\ cli.running
    /\ cli' = [cliAddError(cli, "Request failed") EXCEPT !.running = FALSE]
    /\ event' = [op |-> "cliFailed", msg |-> "Request failed"]
    /\ CliAlone

\* both fetches answer: the rest of fetchSnapshot, then tick() to its end (it has no
\* other await) and the finally of runTickSafely
cliTick(price, tgju) ==
    /\ cli.running
    /\ LET goldPrice == cliGoldPrice(price)
       IN  IF ~IsFinite(goldPrice)
           THEN /\ cli' = [cliAddError(cli, "Talasea price parsing failed")
                               EXCEPT !.running = FALSE]
                /\ event' = [op |-> "cliFailed", msg |-> "Talasea price parsing failed",
                             price |-> price]
           ELSE LET snapshot == [t |-> cli.started, goldPrice |-> Val(goldPrice),
                                 fields |-> [key \in FEATURE_KEYS |->
                                     cliFetchField(tgju[key], cli.started, cli.config)]]
                    h == trimHistory(Append(cli.history, snapshot), snapshot.t, cli.config)
                IN  /\ cli' = [cli EXCEPT
                                 !.history = h,
                                 !.lastSignal =
                                     Some([price |-> IF Len(h) = 0 THEN Null
                                                     ELSE Some(h[Len(h)].goldPrice)]),
                                 !.running = FALSE]
                    /\ event' = [op |-> "cliTick", price |-> price, tgju |-> tgju]
    /\ CliAlone

InitCli == Constructed(DefaultSettings, DefaultProfile, <<>>, 1)

\* the price field of the answer of talasea: absent, 1, "2 T", "n/a", "1-2"
CliPrices ==
    { Null, Num(<<"1">>), Str(<<"2", " ", "T">>), Str(<<"n", "/", "a">>),
      Str(<<"1", "-", "2">>) }

\* the answers of tgju at time t: the same entry at every key, a dated quote, a dated
\* text that is no number, or an undated quote
CliPayloads(t) ==
    { [key \in FEATURE_KEYS |-> e] :
        e \in { [p |-> Num(<<"1", "0", "0">>), ts |-> Some(t)],
                [p |-> Str(<<"n", "/", "a">>), ts |-> Some(t)],
                [p |-> Num(<<"1", "0", "0">>), ts |-> Null] } }

NextCli ==
    \/ now <= cli.cycles /\ Advance(1)
    \/ \E config \in CliConfigs : cliMain(config)
    \/ cliInterval
    \/ cliFetchFail
    \/ \E price \in CliPrices, tgju \in CliPayloads(cli.started) : cliTick(price, tgju)

SpecCli == InitCli /\ [][NextCli]_vars


-----------------------------------------------------------------------------
\* C31: parse failures.  A primary price that does not parse to a finite number makes
\* the tick fail with an error and append no snapshot; an auxiliary quote or timestamp
\* that does not parse leaves the tick successful, with a snapshot appended in which
\* that field has value null (or age null) and fresh = FALSE.  Stated for the engine
\* (EngineParseFailures) and for price.js (CliParseFailures).
Unparsed(v) == ~IsFinite(parseNumber(v))

DegradedFields(fields, tgju) ==
    \A key \in FEATURE_KEYS :
        /\ Unparsed(tgju[key].p) => fields[key].value = Null /\ ~fields[key].fresh
        /\ ~IsFinite(tgju[key].ts) => fields[key].ageMin = Null /\ ~fields[key].fresh

EngineParseFailures ==
    /\ (event'.op = "tickFailed" /\ event'.msg = "Talasea price parse failed") =>
           /\ history' = history
           /\ Len(ticks') < Len(ticks)
           /\ state'.lastError # state.lastError
    /\ (event'.op = "tickFetched" /\ "price" \in DOMAIN event') =>
           /\ ~Unparsed(event'.price)
           /\ Len(history') > 0
           /\ DegradedFields(history'[Len(history')].fields, event'.tgju)

CliParseFailures ==
    /\ event'.op = "cliFailed" => cli'.history = cli.history /\ cli'.errors # cli.errors
    /\ event'.op = "cliTick" =>
           /\ ~Unparsed(event'.price)
           /\ Len(cli'.history) > 0 =>
                  DegradedFields(cli'.history[Len(cli'.history)].fields, event'.tgju)

C31_ParseFailures == [][EngineParseFailures /\ CliParseFailures]_vars

\* the engine alone meets the statement
C31_EngineParseFailures == [][EngineParseFailures]_vars

\* the engine has failed a tick on a price that does not parse, and has appended a
\* snapshot with a quote that does not parse
C31_EngineDegraded ==
    /\ event.op = "tickFetched" /\ "price" \in DOMAIN event
    /\ \E key \in FEATURE_KEYS : Unparsed(event.tgju[key].p)
    /\ Len(state.errors) > 0


-----------------------------------------------------------------------------
(* First ticks: the engine starts on an empty database under several              *)
(* environments, fetches are forced before and after the start has finished, and  *)
(* the scorer runs on what the history then holds                                 *)

MaxFirstEvents == 3

\* the defaults, no confidence floor with a threshold at one half, and a
\* MAX_IN_MEMORY_POINTS of 0 (in force until initializeFromDatabase sanitises it)
FirstSettings ==
    { DefaultSettings,
      [DefaultSettings EXCEPT !.minConfidence = 0, !.buyThreshold = 50],
      [DefaultSettings EXCEPT !.minConfidence = 0, !.sellThreshold = 50],
      [DefaultSettings EXCEPT !.maxInMemoryPoints = 0] }

\* no cash and no gold, or both with no fees
FirstProfiles ==
    { DefaultProfile,
      [DefaultProfile EXCEPT !.cashIrr = 5000, !.goldGrams = 2,
                             !.buyFeePct = 0, !.sellFeePct = 0] }

InitFirst == \E s \in FirstSettings, p \in FirstProfiles : Constructed(s, p, <<>>, 1)

FirstPrices == {Num(<<"1">>), Num(<<"2">>)}

\* the answers of tgju at time t: the same entry at every key, a dated quote or a
\* dated text that is no number
FirstPayloads(t) ==
    { [key \in FEATURE_KEYS |-> e] :
        e \in { [p |-> Num(<<"1", "0", "0">>), ts |-> Some(t)],
                [p |-> Str(<<"n", "/", "a">>), ts |-> Some(t)] } }

NextFirst ==
    \/ start
    \/ InitializeConfig
    \/ InitializeHistory
    \/ (Busy \/ Budget(MaxFirstEvents)) /\ TimerFire
    \/ Started /\ (Busy \/ Budget(MaxFirstEvents)) /\ forceTick
    \/ \E i \in 1..Len(ticks) : TickFetchFail(i)
    \/ \E i \in 1..Len(ticks), price \in FirstPrices :
           \E tgju \in FirstPayloads(ticks[i].t) : TickFetchFields(i, price, tgju)
    \/ \E i \in 1..Len(ticks), signal \in buildSignal(history), rangePct \in NarrowRanges :
           TickSnapshotCreateOk(i, signal, rangePct)
    \/ \E i \in 1..Len(ticks) : TickSignalCreateOk(i)

SpecFirst == InitFirst /\ [][NextFirst]_vars


-----------------------------------------------------------------------------
-----------------------------------------------------------------------------
\* C33: the history is changed only by appending at the end and removing from the
\* front: after every step the history is a suffix of the history before it, possibly
\* extended by one new snapshot at the end, and in every reachable state the
\* timestamps do not decrease from the oldest snapshot to the newest.
IsSuffix(s, h) == Len(s) <= Len(h) /\ s = SubSeq(h, Len(h) - Len(s) + 1, Len(h))

NonDecreasing(h) == \A i \in 1..(Len(h) - 1) : h[i].t <= h[i + 1].t

C33_AppendAndTrimOnly ==
    /\ []NonDecreasing(history)
    /\ [][ \/ IsSuffix(history', history)
           \/ /\ Len(history') > 0
              /\ IsSuffix(SubSeq(history', 1, Len(history') - 1), history) ]_vars

\* the part that holds: the timestamps never decrease, a tick appends one snapshot to
\* a suffix, and every other change leaves a suffix or is the load of the stored rows
C33_OrderedAndLoaded ==
    /\ []NonDecreasing(history)
    /\ [][ \/ IsSuffix(history', history)
           \/ /\ Appended
              /\ IsSuffix(SubSeq(history', 1, Len(history') - 1), history)
           \/ /\ event'.op = "initDone"
              /\ history' = MapNormalize(findMany(db.snapshots,
                                now - settings.historyRetentionHours * MinutesPerHour,
                                settings.maxInMemoryPoints)) ]_vars


-----------------------------------------------------------------------------
(* Zones: ticks five minutes apart over prices that move, so that the scorer has  *)
(* a baseline and the volatility has none, one or two returns                     *)

MaxZoneEvents == 4

InitZones == Constructed(DefaultSettings, FundedProfile, <<>>, 1)

NextZones ==
    \/ \E d \in PolicyDurations : startPc = "started" /\ ~Busy /\ Advance(d)
    \/ start
    \/ InitializeConfig
    \/ InitializeHistory
    \/ startPc = "started" /\ Budget(MaxZoneEvents) /\ forceTick
    \/ \E i \in 1..Len(ticks), raw \in {Some(1), Some(2)} : TickFetchOk(i, raw)
    \/ \E i \in 1..Len(ticks), signal \in buildSignal(history) :
           \E rangePct \in ZoneSpreads(history, settings) :
               TickSnapshotCreateOk(i, signal, rangePct)
    \/ \E i \in 1..Len(ticks) : TickSignalCreateOk(i)

SpecZones == InitZones /\ [][NextZones]_vars

\* C34: zones.  For every signal with price > 0: rangePct lies in [0.001, 0.05], and is
\* the clamped spread of the volatility 0.0018 when the gold series has fewer than two
\* returns; driftPct = (pUp - 0.5) * 2 * rangePct * 1.15; the bands are ordered
\* 0 <= downLow <= downHigh <= price <= upLow <= upHigh; expectedStop is the midpoint
\* of the up band when pUp >= 0.5 and of the down band otherwise, so that
\* expectedStop >= price exactly when pUp >= 0.5.
C34_Zones ==
    [][ (Decided /\ NewSignal.price > 0) =>
          LET z == NewZones
              s == NewSignal
              price == s.price * 1000000
              rets == returnsOver(history, "gold", Max(10, settings.predictionHorizonMin))
          IN  /\ z.rangePct >= MinRangePerMille /\ z.rangePct <= MaxRangePerMille
              /\ Len(rets) < 2 =>
                     z.rangePct = clamp(DefaultSpread(settings), MinRangePerMille,
                                        MaxRangePerMille)
              /\ z.driftPct = (s.pUp - 50) * z.rangePct * 23
              /\ 0 <= z.downLow /\ z.downLow <= z.downHigh /\ z.downHigh <= price
              /\ price <= z.upLow /\ z.upLow <= z.upHigh
              /\ z.expectedStop = IF s.pUp >= 50
                                  THEN z.upLow + (z.upHigh - z.upLow) \div 2
                                  ELSE z.downLow + (z.downHigh - z.downLow) \div 2
              /\ (z.expectedStop >= price) <=> (s.pUp >= 50) ]_vars

\* a tick has published zones around a falling forecast whose range is the upper limit
C34_ClampedDownZone ==
    /\ event.op = "tickComputed"
    /\ IsFinite(state.signal) /\ IsFinite(state.zones)
    /\ Val(state.signal).price > 0
    /\ Val(state.signal).pUp < 50
    /\ Val(state.zones).rangePct = MaxRangePerMille
    /\ Val(state.zones).expectedStop < Val(state.signal).price * 1000000


-----------------------------------------------------------------------------
\* C35: the published buffers are bounded in every reachable state: state.logs and
\* state.errors hold at most 40 lines each, state.priceHistory holds at most 300
\* points and is the newest points of the history in order (read in the states in
\* which no tick is in flight), and after every successful tick state.historyPoints
\* is the length of the history.
C35_BoundedBuffers ==
    /\ [](/\ Len(state.logs) <= MAX_LOG_LINES
          /\ Len(state.errors) <= MAX_LOG_LINES
          /\ Len(state.priceHistory) <= CHART_POINTS
          /\ Len(ticks) = 0 => state.priceHistory = priceHistory(history))
    /\ [][(TickEnded /\ event'.op = "tickDone") =>
              state'.historyPoints = Len(history')]_vars

\* the bounds alone, and the chart and the count as the last computing tick or the
\* load left them
C35_BoundsOnly ==
    /\ [](/\ Len(state.logs) <= MAX_LOG_LINES
          /\ Len(state.errors) <= MAX_LOG_LINES
          /\ Len(state.priceHistory) <= CHART_POINTS
          /\ Len(state.priceHistory) = Min(CHART_POINTS, state.historyPoints))
    /\ [][(Decided \/ event'.op = "initDone") =>
              /\ state'.priceHistory = priceHistory(history')
              /\ state'.historyPoints = Len(history')]_vars


-----------------------------------------------------------------------------
\* C36: a tick that fails at a persistence write leaves the engine as it was before
\* the tick: when the write of the snapshot or of the signal record fails, the history
\* does not hold the snapshot of the tick, no pending prediction and no published
\* signal stems from it, and state.historyPoints is the length of the history; and
\* whenever no tick is in flight, every snapshot of the history is in the database and
\* state.historyPoints is the length of the history.
Persisted(snapshot) == \E j \in 1..Len(db.snapshots) : db.snapshots[j].t = snapshot.t

WriteFailed(i) ==
    /\ TickEnded
    /\ event'.op = "tickFailed"
    /\ event'.at \in {"snapshotCreate", "signalCreate"}
    /\ ticks[i].pc = event'.at

C36_AtomicTick ==
    /\ [](Len(ticks) = 0 =>
              /\ \A k \in 1..Len(history) : Persisted(history[k])
              /\ state.historyPoints = Len(history))
    /\ [][ \A i \in 1..Len(ticks) : WriteFailed(i) =>
               LET snapshot == Val(ticks[i].snapshot)
               IN  /\ \A k \in 1..Len(history') : history'[k] # snapshot
                   /\ \A k \in 1..Len(pendingPredictions') :
                          pendingPredictions'[k].t # snapshot.t
                   /\ IsFinite(state'.signal) =>
                          Val(state'.signal).timestamp # snapshot.t
                   /\ state'.historyPoints = Len(history') ]_vars


-----------------------------------------------------------------------------
\* C37: the first tick on an empty history gives no recommendation: with a single
\* snapshot in the history every momentum and the volatility are null and the
\* divergence is 0 or null, so pUp = 0.5 and confidence = 0, and the decision is HOLD
\* under every admissible configuration of thresholds, minConfidence and profile.
SingleSnapshotNeutral ==
    LET inp == inputs(history, settings)
    IN  /\ \A k \in {"goldMom5", "goldMom15", "tgjuGoldMom5", "dollarMom5", "onsMom5",
                     "volatility15"} : inp[k] = Null
        /\ IsFinite(inp.divergence) => Sign(Val(inp.divergence)) = 0
        /\ NewSignal.pUp = 50
        /\ NewSignal.confidence = 0

C37_FirstTickHolds ==
    [][ (Decided /\ Len(history) = 1) =>
            SingleSnapshotNeutral /\ NewDecision.action = "HOLD" ]_vars

\* the part that holds: the signal of a single snapshot is neutral
C37_FirstTickNeutral == [][ (Decided /\ Len(history) = 1) => SingleSnapshotNeutral ]_vars

\* a tick has scored a single snapshot whose gold quote was fresh: the divergence is 0
C37_SingleSnapshotScored ==
    /\ event.op = "tickComputed"
    /\ Len(history) = 1
    /\ IsFinite(inputs(history, settings).divergence)


-----------------------------------------------------------------------------
(* Direction: one decision after another under thresholds on either side of one   *)
(* half, every scorer outcome, every range and every price                        *)

\* a buyThreshold below one half, a sellThreshold above it, a sellThreshold at it
DirectionSettings ==
    { [DefaultSettings EXCEPT !.buyThreshold = 30, !.sellThreshold = 20],
      [DefaultSettings EXCEPT !.buyThreshold = 80, !.sellThreshold = 70],
      [DefaultSettings EXCEPT !.minConfidence = 0, !.sellThreshold = 50] }

InitDirection ==
    \E s \in DirectionSettings, p \in EnvProfiles :
        Constructed(s, p, <<StoredSnapshot>>, StoredSnapshot.t + MOMENTUM_LOOKBACK_MIN)

SpecDirection == InitDirection /\ [][NextDecision]_vars

\* C38: direction consistency.  For every tick with price > 0, under thresholds on
\* either side of one half, an emitted BUY has pUp >= 0.5 and an emitted SELL has
\* pUp < 0.5: a tentative BUY below one half and a tentative SELL at or above it are
\* held, by the edge gate when no earlier gate has held them.
C38_DirectionConsistent ==
    [][ (Decided /\ NewSignal.price > 0) =>
            /\ NewDecision.action = "BUY" => NewSignal.pUp >= 50
            /\ NewDecision.action = "SELL" => NewSignal.pUp < 50
            /\ ( /\ thresholdGate(NewSignal, settings).action = "BUY"
                 /\ NewSignal.pUp < 50
                 /\ inventoryGate(thresholdGate(NewSignal, settings), NewSignal,
                                  profile).action = "BUY" ) =>
                   NewDecision.reason = "BUY edge does not clear fees"
            /\ ( /\ thresholdGate(NewSignal, settings).action = "SELL"
                 /\ NewSignal.pUp >= 50
                 /\ inventoryGate(thresholdGate(NewSignal, settings), NewSignal,
                                  profile).action = "SELL" ) =>
                   NewDecision.reason = "SELL edge does not clear fees" ]_vars

\* a BUY tentative under a buyThreshold of 0.3 was held by the edge gate at pUp = 0.3
C38_BuyBelowHalfHeld ==
    /\ event.op = "tickComputed"
    /\ settings.buyThreshold < 50
    /\ IsFinite(state.signal)
    /\ Val(state.signal).price > 0
    /\ Val(state.signal).pUp < 50
    /\ Val(state.signal).pUp >= settings.buyThreshold
    /\ state.decision.action = "HOLD"
    /\ state.decision.reason = "BUY edge does not clear fees"


-----------------------------------------------------------------------------
\* C39: the snapshot just appended is never trimmed away: after the append and the
\* trim at the time of the new snapshot the history is not empty and its last element
\* is the new snapshot, whatever historyRetentionHours and maxInMemoryPoints are; hence
\* no tick builds its signal from an empty history.  Stated for the engine and for
\* price.js.
C39_NewestKept ==
    [][ /\ event'.op = "tickFetched" =>
               /\ Len(history') > 0
               /\ \E i \in 1..Len(ticks') :
                      Some(history'[Len(history')]) = ticks'[i].snapshot
        /\ Decided => Len(history) > 0
        /\ event'.op = "cliTick" =>
               /\ Len(cli'.history) > 0
               /\ cli'.history[Len(cli'.history)].t = cli.started
               /\ IsFinite(Val(cli'.lastSignal).price) ]_vars


-----------------------------------------------------------------------------
\* index.js, the price-target watcher.  It asks for a mode and a target, fetches the
\* price at once and then every two minutes, and notifies when the price meets the
\* target while it is armed.

MAX_POINTS == 60

watcherMAX_LOG_LINES == 10

MaxWatcherQuotes == 2

MaxWatcherFailures == 1

MaxWatcherOverlap == 2

\* parsePriceString(priceStr): null for anything that is no string; of a string the
\* digits and "." are kept and read as a number, null when none is left or when they
\* are no number
parsePriceString(priceStr) ==
    IF priceStr = Null THEN Null
    ELSE IF priceStr.type # "string" THEN Null
    ELSE LET cleaned == Only(priceStr.text, DigitChars \cup {"."})
         IN  IF cleaned = <<>> THEN Null
             ELSE IF ToNumber(cleaned) = NaN THEN Null
             ELSE Some(ToNumber(cleaned))

\* Mutation of isTriggered: a price equal to the target does not trigger
isTriggeredStrict(mode, priceNum, targetNum) ==
    IF mode = "sell" THEN priceNum > targetNum ELSE priceNum < targetNum

isTriggered(mode, priceNum, targetNum) ==
    IF mode = "sell" THEN priceNum >= targetNum ELSE priceNum <= targetNum

rearmCondition(mode, priceNum, targetNum) ==
    IF mode = "sell" THEN priceNum < targetNum ELSE priceNum > targetNum

WatcherAlone ==
    UNCHANGED <<now, cli, observers, updatesIssued, settings, profile, history,
                pendingPredictions, metrics, timer, running, initialized,
                lastRetentionSweepAt, eventSeq, state, db, ticks, calls, startPc,
                lastEmitted>>

\* the market moves while the watcher is young and again once its window is about to
\* fill; in between every fetch answers the price of the fetch before
Lively == watcher.quotes < MaxWatcherQuotes \/ watcher.quotes >= MAX_POINTS - 1

\* a fetchOnce returns: the first one lets main() go on to setInterval
watcherReturned(w) ==
    [w EXCEPT !.inflight = @ - 1, !.pc = IF @ = "first" THEN "run" ELSE @]

watcherAddError(w, msg) ==
    [w EXCEPT !.errors = pushBounded(w.errors, msg, watcherMAX_LOG_LINES),
              !.failures = @ + 1]

\* main(): askMode and askTarget ask until the answers are a mode and a number, then
\* the first fetchOnce is called and runs to its await of fetch
watcherMain(mode, answer) ==
    /\ watcher.pc = "prompt"
    /\ mode \in {"sell", "buy"}
    /\ parsePriceString(answer) # Null
    /\ watcher' = [watcher EXCEPT !.pc = "first", !.mode = mode,
                                  !.targetNum = Val(parsePriceString(answer)),
                                  !.inflight = 1]
    /\ event' = [op |-> "watcherMain"]
    /\ WatcherAlone

\* the interval timer of main() calls fetchOnce, whether or not one is in flight
watcherInterval ==
    /\ watcher.pc = "run"
    /\ watcher.inflight < MaxWatcherOverlap
    /\ watcher.quotes < MAX_POINTS + MaxWatcherQuotes - 1
    /\ watcher' = [watcher EXCEPT !.inflight = @ + 1]
    /\ event' = [op |-> "watcherInterval"]
    /\ WatcherAlone

\* fetchOnce: the answer is not ok
watcherHttpError ==
    /\ watcher.inflight > 0
    /\ Lively /\ watcher.failures < MaxWatcherFailures
    /\ watcher' = watcherReturned(watcherAddError(watcher, "HTTP"))
    /\ event' = [op |-> "watcherFailed", msg |-> "HTTP"]
    /\ WatcherAlone

\* fetchOnce: fetch or response.json() rejects, the catch
watcherNetworkError ==
    /\ watcher.inflight > 0
    /\ Lively /\ watcher.failures < MaxWatcherFailures
    /\ watcher' = watcherReturned(watcherAddError(watcher, "Network error"))
    /\ event' = [op |-> "watcherFailed", msg |-> "Network error"]
    /\ WatcherAlone

\* fetchOnce: the answer is ok and its body is data; from there fetchOnce runs to its
\* end without another await
watcherPrice(price) ==
    /\ watcher.inflight > 0
    /\ LET priceNum == parsePriceString(price)
       IN  IF priceNum = Null
           THEN /\ Lively /\ watcher.failures < MaxWatcherFailures
                /\ watcher' = watcherReturned(
                                  watcherAddError(watcher, "Could not parse price"))
                /\ event' = [op |-> "watcherFailed", msg |-> "Could not parse price",
                             price |-> price]
           ELSE LET p == Val(priceNum)
                    triggered == isTriggered(watcher.mode, p, watcher.targetNum)
                    alert == triggered /\ ~watcher.lastAlerted
                IN  /\ IF Lively THEN TRUE ELSE p = watcher.prices[Len(watcher.prices)]
                    /\ watcher' = watcherReturned(
                           [watcher EXCEPT
                              !.prices = pushBounded(@, p, MAX_POINTS),
                              !.quotes = @ + 1,
                              !.notifications = IF alert THEN @ + 1 ELSE @,
                              !.lastAlerted =
                                  IF triggered THEN TRUE
                                  ELSE IF rearmCondition(watcher.mode, p,
                                                         watcher.targetNum)
                                  THEN FALSE ELSE @])
                    /\ event' = [op |-> "watcherPrice", price |-> price,
                                 priceNum |-> p, notified |-> alert]
    /\ WatcherAlone

InitWatcher == Constructed(DefaultSettings, DefaultProfile, <<>>, 1)

\* the answers to "Target price: ": "2" and one that is asked again
WatcherTargets == { Str(<<"2">>), Str(<<"x">>) }

\* the price field of the answer: "1", "2", "3 T", 2 as a number, "n/a"
WatcherPrices ==
    { Str(<<"1">>), Str(<<"2">>), Str(<<"3", " ", "T">>), Num(<<"2">>),
      Str(<<"n", "/", "a">>) }

NextWatcher ==
    \/ \E mode \in {"sell", "buy"}, answer \in WatcherTargets : watcherMain(mode, answer)
    \/ watcherInterval
    \/ watcherHttpError
    \/ watcherNetworkError
    \/ \E price \in WatcherPrices : watcherPrice(price)

SpecWatcher == InitWatcher /\ [][NextWatcher]_vars


-----------------------------------------------------------------------------
\* the price meets the target: at or above it in sell mode, at or below it in buy mode
MeetsTarget(mode, price, target) ==
    (mode = "sell" /\ price >= target) \/ (mode = "buy" /\ price <= target)

\* the step is the end of a fetchOnce that parsed a price
ParsedPrice == event'.op = "watcherPrice" /\ watcher'.quotes = watcher.quotes + 1

\* C40: the price-target watcher.  A step sends a notification exactly when it is a
\* fetch that parsed a price meeting the target (price >= target in sell mode,
\* price <= target in buy mode) while the watcher was armed, and it sends one; a
\* notification disarms the watcher, and only a parsed price that does not meet the
\* target arms it again; a failed fetch and an unparseable price change neither the
\* armed flag nor the price history; the price history never has more than 60 points
C40_WatcherNotifies ==
    /\ [](Len(watcher.prices) <= 60)
    /\ [][ LET sent == watcher'.notifications - watcher.notifications
               meets == MeetsTarget(watcher.mode, event'.priceNum, watcher.targetNum)
           IN  /\ sent \in {0, 1}
               /\ sent = 1 <=> (ParsedPrice /\ meets /\ ~watcher.lastAlerted)
               /\ sent = 1 => watcher'.lastAlerted
               /\ watcher.lastAlerted /\ ~watcher'.lastAlerted => ParsedPrice /\ ~meets
               /\ ParsedPrice /\ ~meets => ~watcher'.lastAlerted
               /\ ParsedPrice => /\ Len(watcher'.prices) > 0
                                 /\ watcher'.prices[Len(watcher'.prices)] = event'.priceNum
               /\ event'.op = "watcherFailed" =>
                      /\ watcher'.lastAlerted = watcher.lastAlerted
                      /\ watcher'.prices = watcher.prices
                      /\ sent = 0
         ]_vars

\* in sell mode with the target 2 the watcher notified on its first prices, was
\* re-armed by a price of 1 once its window of 60 was full, and notified a second time
\* on a price equal to the target, the oldest point having been dropped
C40_NotifiedAgainAfterRearm ==
    /\ event.op = "watcherPrice"
    /\ event.notified
    /\ event.priceNum = watcher.targetNum
    /\ watcher.mode = "sell"
    /\ watcher.notifications = 2
    /\ watcher.quotes > 60
    /\ Len(watcher.prices) = 60
    /\ watcher.prices[59] = 1
    /\ watcher.lastAlerted

====
